---- MODULE Spec2Model ----
(***************************************************************************)
(* A model of the HalideIR core: IR nodes held in a heap (identity = heap  *)
(* index), the smart constructors of IR.cpp, the default mutator and the   *)
(* graph mutator of IRMutator.cpp, and the common-subexpression            *)
(* elimination pass of CSE.cpp.                                            *)
(*                                                                         *)
(* A handle (Expr / Stmt) is a heap index; 0 is the undefined handle.      *)
(* same_as is equality of indices. Nodes are immutable: the heap only      *)
(* grows.                                                                  *)
(***************************************************************************)
EXTENDS Integers, Sequences, FiniteSets, TLC

VARIABLES
    heap,   \* the IR nodes made so far
    cse,    \* the calls of common_subexpression_elimination and their results
    mut,    \* the mutator pass run over the last node made, and its result
    call,   \* the last call of a constructor or function, and its result
    irf,    \* the dispatch table, its wrapper, and what was registered
    names,  \* the name counters, the names returned, and the threads calling unique_name
    arr     \* the Array handles and the ArrayNodes they point to

vars == <<heap, cse, mut, call, irf, names, arr>>

(***************************************************************************)
(* Bounds of the model.                                                    *)
(***************************************************************************)
\* number of nodes the make calls add to the initial heap of the CSE pass
MaxNodes == 2
\* free variables take the values 0..MaxVal when expressions are evaluated
MaxVal == 2

(***************************************************************************)
(* IR nodes.                                                               *)
(*   k   : the kind tag                                                    *)
(*   ty  : the type of an expression ("" for a statement)                  *)
(*   c   : the child handles, in the order of the fields of the node       *)
(*   var : the VarExpr field of the node (Let::var, ...), 0 when none      *)
(*   val : the scalar field of the node (IntImm::value, lanes, ...)        *)
(***************************************************************************)
Undefined == 0

Node(k, ty, c, var, val) == [k |-> k, ty |-> ty, c |-> c, var |-> var, val |-> val]

BinaryOpKinds == {"Add", "Sub", "Mul", "Div", "Mod", "Min", "Max"}

\* make_node: allocate at the next free index
Alloc(h, n) == Append(h, n)

\* IntImm::make for Int(32) values already in range (see IntImm_make for the
\* normalisation)
IntImmNode(v) == Node("IntImm", "Int32", <<>>, 0, v)

Variable_make(ty, name) == Node("Variable", ty, <<>>, 0, name)

\* BinaryOpNode<T>::make after its internal_asserts: the node's type is the
\* type of a
BinaryOp_make(h, k, a, b) == Node(k, h[a].ty, <<a, b>>, 0, 0)

CmpOpKinds == {"EQ", "NE", "LT", "LE", "GT", "GE"}

\* a Type is its code, bits and lanes; Bool(lanes) is UInt(1, lanes)
Type_t(code, bits, lanes) == [code |-> code, bits |-> bits, lanes |-> lanes]

Bool(lanes) == Type_t("uint", 1, lanes)

\* CmpOpNode<T>::make after its internal_asserts: the node's type is Bool
\* with the lanes of a
CmpOp_make(h, k, a, b) == Node(k, Bool(h[a].ty.lanes), <<a, b>>, 0, 0)

\* Let::make: the node's type is the type of the body
Let_make(h, var, value, body) == Node("Let", h[body].ty, <<value, body>>, var, 0)

(***************************************************************************)
(* Structural equality (IREquality): kinds, types, fields and children      *)
(* equal recursively; variables compare by identity.                       *)
(***************************************************************************)
RECURSIVE equal(_, _, _)
equal(h, a, b) ==
    IF a = b THEN TRUE
    ELSE IF a = Undefined \/ b = Undefined THEN FALSE
    ELSE /\ h[a].k = h[b].k
         /\ h[a].k # "Variable"
         /\ h[a].ty = h[b].ty
         /\ h[a].val = h[b].val
         /\ h[a].var = h[b].var
         /\ Len(h[a].c) = Len(h[b].c)
         /\ \A i \in 1..Len(h[a].c) : equal(h, h[a].c[i], h[b].c[i])

\* is_const (IROperator): a literal, or a cast / broadcast / ramp of literals
RECURSIVE is_const(_, _)
is_const(h, e) ==
    CASE h[e].k \in {"IntImm", "UIntImm", "FloatImm", "StringImm"} -> TRUE
      [] h[e].k \in {"Cast", "Broadcast"} -> is_const(h, h[e].c[1])
      [] h[e].k = "Ramp" -> is_const(h, h[e].c[1]) /\ is_const(h, h[e].c[2])
      [] OTHER -> FALSE

\* Expr() / Stmt(): the handle an omitted constructor argument defaults to
DefaultArg == Undefined

StmtKinds == {"LetStmt", "AttrStmt", "AssertStmt", "ProducerConsumer", "For",
              "Store", "Provide", "Allocate", "Free", "Realize", "Prefetch",
              "Block", "IfThenElse", "Evaluate"}

IsStmt(h, e) == e # Undefined /\ h[e].k \in StmtKinds

\* make_node followed by return Expr(node): the heap and the new handle
AllocRet(h, n) == [heap |-> Alloc(h, n), ret |-> Len(h) + 1]

(***************************************************************************)
(* Block::make(first, rest): a Block whose first is a Block (a, b) is      *)
(* rebuilt as Block(a, Block(b, rest)). Returns the heap and the handle of *)
(* the new Block. (C++ allocates the outer node before the inner call;     *)
(* the order of allocation is not observable.)                             *)
(***************************************************************************)
BlockNode(first, rest) == Node("Block", "", <<first, rest>>, 0, 0)

\* node->first = b->first; node->rest = <the inner Block>
Block_wrap(inner, first) == AllocRet(inner.heap, BlockNode(first, inner.ret))

\* Block::make(first, rest) that keeps its arguments as they are
Block_make_Plain(h, first, rest) == AllocRet(h, BlockNode(first, rest))

RECURSIVE Block_make(_, _, _)
Block_make(h, first, rest) ==
    IF h[first].k = "Block"
    THEN Block_wrap(Block_make(h, h[first].c[2], rest), h[first].c[1])
    ELSE AllocRet(h, BlockNode(first, rest))

(***************************************************************************)
(* A mutator object together with the heap it allocates in.                *)
(*   cls            : the dynamic class, which selects the overrides       *)
(*   expr_, stmt_, no_mutation_ : the result registers of IRMutator        *)
(*   ret            : the handle returned by the last call of mutate       *)
(*   visits         : how often the kind-specific visit ran, per node      *)
(*   entries, numbering, shallow_numbering, let_substitutions, number :    *)
(*                    the members of GVN                                   *)
(*   replacements   : Replacer::replacements, and the two tables           *)
(*                    expr_replacements / stmt_replacements of             *)
(*                    IRGraphMutator (a node is an Expr or a Stmt, so one  *)
(*                    function holds both)                                 *)
(*   fresh          : the variables a renaming subclass replaces: its      *)
(*                    visit of a Variable returns a new Variable for each  *)
(*                    of them and is the default for every other           *)
(*   calls          : the calls of mutate made so far, as pairs            *)
(*                    <<argument, handle returned>>                        *)
(***************************************************************************)
EmptyMap == <<>>

NewMutator(cls, h) ==
    [cls |-> cls, heap |-> h, expr_ |-> Undefined, stmt_ |-> Undefined,
     no_mutation_ |-> FALSE, ret |-> Undefined, visits |-> EmptyMap,
     entries |-> <<>>, numbering |-> EmptyMap, shallow_numbering |-> EmptyMap,
     let_substitutions |-> EmptyMap, number |-> 0,
     replacements |-> EmptyMap, fresh |-> {}, calls |-> <<>>]

\* std::map assignment m[k] = v
Put(f, k, v) == (k :> v) @@ f

\* erase(k) of std::map
Erase(f, k) == [x \in DOMAIN f \ {k} |-> f[x]]

return_self(m) == [m EXCEPT !.no_mutation_ = TRUE]

return_value(m, x, isStmt) ==
    IF isStmt THEN [m EXCEPT !.stmt_ = x, !.no_mutation_ = FALSE]
    ELSE [m EXCEPT !.expr_ = x, !.no_mutation_ = FALSE]

\* whether child i of node n is a Stmt handle
IsStmtChild(n, i) ==
    CASE n.k = "LetStmt" -> i = 2
      [] n.k = "AssertStmt" -> i = 3
      [] n.k = "ProducerConsumer" -> i = 1
      [] n.k = "For" -> i = 3
      [] n.k = "Allocate" -> i = Len(n.c) - 1
      [] n.k = "Realize" -> i = Len(n.c)
      [] n.k = "Block" -> TRUE
      [] n.k = "IfThenElse" -> i \in {2, 3}
      [] OTHER -> FALSE

Range1(n) == [i \in 1..n |-> i]

(***************************************************************************)
(* The children a default visit mutates, in the order it mutates them.     *)
(* Children are stored in the order of the fields:                         *)
(*   Load      <<index, predicate>>      Store <<value, index, predicate>> *)
(*   AssertStmt <<condition, message, body>>                               *)
(*   Allocate  <<extents..., condition, body, new_expr>>                   *)
(*   Realize   <<min1, extent1, ..., condition, body>>                     *)
(***************************************************************************)
VisitOrder(n) ==
    CASE n.k = "Load" -> <<1>>
      [] n.k = "Store" -> <<1, 2>>
      [] n.k = "AssertStmt" -> <<1, 2>>
      [] n.k = "Allocate" ->
           Range1(Len(n.c) - 3) \o <<Len(n.c) - 1, Len(n.c) - 2>>
              \o (IF n.c[Len(n.c)] # Undefined THEN <<Len(n.c)>> ELSE <<>>)
      [] n.k = "Realize" ->
           Range1(Len(n.c) - 2) \o <<Len(n.c), Len(n.c) - 1>>
      [] OTHER -> Range1(Len(n.c))

SeqToSet(s) == {s[i] : i \in 1..Len(s)}

(***************************************************************************)
(* The node a default visit makes when a child changed: T::make with the   *)
(* arguments of the call in IRMutator.cpp. c holds the mutated children.   *)
(* Returns the heap and the handle.                                        *)
(***************************************************************************)
Rebuild(h, n, c) ==
    CASE n.k = "Load" ->
           \* Load::make(op->type, op->buffer_var, index)
           AllocRet(h, [n EXCEPT !.c = <<c[1], DefaultArg>>])
      [] n.k = "Store" ->
           \* Store::make(op->buffer_var, value, index)
           AllocRet(h, [n EXCEPT !.c = <<c[1], c[2], DefaultArg>>])
      [] n.k = "AssertStmt" ->
           \* AssertStmt::make(condition, message)
           AllocRet(h, [n EXCEPT !.c = <<c[1], c[2], DefaultArg>>])
      [] n.k = "Block" -> Block_make(h, c[1], c[2])
      [] n.k \in BinaryOpKinds -> AllocRet(h, BinaryOp_make(h, n.k, c[1], c[2]))
      [] n.k \in CmpOpKinds -> AllocRet(h, CmpOp_make(h, n.k, c[1], c[2]))
      [] n.k = "Let" -> AllocRet(h, Let_make(h, n.var, c[1], c[2]))
      [] n.k = "Select" -> AllocRet(h, [n EXCEPT !.c = c, !.ty = h[c[2]].ty])
      [] OTHER -> AllocRet(h, [n EXCEPT !.c = c])

RECURSIVE Mutate(_, _, _)
RECURSIVE IRMutator_mutate(_, _, _)
RECURSIVE IRMutator_visit(_, _)
RECURSIVE MutateChildren(_, _, _, _)
RECURSIVE GVN_mutate(_, _)
RECURSIVE GVN_visit_Let(_, _)
RECURSIVE Replacer_mutate(_, _)
RECURSIVE IRGraphMutator_mutate(_, _, _)
RECURSIVE Visit(_, _)

\* mutate the children of node e at the positions of order, left to right;
\* c collects the results
MutateChildren(m, e, order, c) ==
    IF order = <<>> THEN [m |-> m, c |-> c]
    ELSE LET next(m1) ==
                 MutateChildren(m1, e, Tail(order), [c EXCEPT ![Head(order)] = m1.ret])
         IN next(Mutate(m, m.heap[e].c[Head(order)],
                        IsStmtChild(m.heap[e], Head(order))))

\* a visit that calls T::make whether or not a child changed
IRMutator_return_AlwaysMake(r, n) ==
    LET built(b) == return_value([r.m EXCEPT !.heap = b.heap], b.ret,
                                 n.k \in StmtKinds)
    IN built(Rebuild(r.m.heap, n, r.c))

\* return_self() when every mutated child is same_as the original child,
\* return_value(T::make(...)) otherwise
IRMutator_return(r, n) ==
    IF \A i \in SeqToSet(VisitOrder(n)) : r.c[i] = n.c[i]
    THEN return_self(r.m)
    ELSE LET built(b) == return_value([r.m EXCEPT !.heap = b.heap], b.ret,
                                      n.k \in StmtKinds)
         IN built(Rebuild(r.m.heap, n, r.c))

\* the default IRMutator::visit of every kind
IRMutator_visit(m, e) ==
    IRMutator_return(MutateChildren(m, e, VisitOrder(m.heap[e]), m.heap[e].c),
                     m.heap[e])

\* Scope::push
Scope_push(scope, var, x) ==
    Put(scope, var, Append(IF var \in DOMAIN scope THEN scope[var] ELSE <<>>, x))

\* Scope::pop
Scope_pop(scope, var) ==
    Put(scope, var, SubSeq(scope[var], 1, Len(scope[var]) - 1))

\* Scope::contains
Scope_contains(scope, var) == var \in DOMAIN scope /\ scope[var] # <<>>

\* Scope::get: the innermost binding
Scope_get(scope, var) == scope[var][Len(scope[var])]

\* GVN::visit(const Let *)
GVN_visit_Let(m, e) ==
    LET let == m.heap[e]
        \* let_substitutions.pop(let->var.get()); expr = body
        done(m3) == return_value(
                        [m3 EXCEPT !.let_substitutions = Scope_pop(@, let.var)],
                        m3.ret, FALSE)
        \* let_substitutions.push(let->var.get(), number); mutate(let->body)
        body(m1) == done(Mutate(
                        [m1 EXCEPT !.let_substitutions =
                                       Scope_push(@, let.var, m1.number)],
                        let.c[2], FALSE))
    IN body(Mutate(m, let.c[1], FALSE))

\* visit(const Variable *) of the renaming subclass:
\* return_value(Variable::make(op->type, op->name_hint))
Rename_visit_Variable(m, e) ==
    return_value([m EXCEPT !.heap = Alloc(@, m.heap[e])], Len(m.heap) + 1, FALSE)

\* e.accept(this): the kind-specific visit, overrides first
Visit(m, e) ==
    LET counted == [m EXCEPT !.visits =
                      Put(@, e, IF e \in DOMAIN @ THEN @[e] + 1 ELSE 1)]
    IN IF m.cls = "GVN" /\ m.heap[e].k = "Let" THEN GVN_visit_Let(counted, e)
       ELSE IF e \in m.fresh THEN Rename_visit_Variable(counted, e)
       ELSE IRMutator_visit(counted, e)

\* the end of IRMutator::mutate: clear the other register, return e or the
\* register
IRMutator_result(m1, e, isStmt) ==
    IF isStmt
    THEN [m1 EXCEPT !.expr_ = Undefined,
                    !.ret = IF m1.no_mutation_ THEN e ELSE m1.stmt_]
    ELSE [m1 EXCEPT !.stmt_ = Undefined,
                    !.ret = IF m1.no_mutation_ THEN e ELSE m1.expr_]

\* IRMutator::mutate(Expr) and IRMutator::mutate(Stmt)
IRMutator_mutate(m, e, isStmt) ==
    IRMutator_result(IF e # Undefined THEN Visit(m, e)
                     ELSE IF isStmt THEN [m EXCEPT !.stmt_ = Undefined]
                     ELSE [m EXCEPT !.expr_ = Undefined],
                     e, isStmt)

\* numbering.find(with_cache(e)): the number of the structurally equal key,
\* -1 for numbering.end()
Find(m, e) ==
    LET hit == {k \in DOMAIN m.numbering : equal(m.heap, k, e)}
    IN IF hit = {} THEN -1 ELSE m.numbering[CHOOSE k \in hit : TRUE]

\* number = n; return entries[number].expr
GVN_hit(m, n) == [m EXCEPT !.number = n, !.ret = m.entries[n + 1].expr]

\* GVN::mutate after IRMutator::mutate(e) returned: look the rebuilt
\* expression up once more, add it to the numbering when it is new
GVN_rebuilt(m1, old_e, f1) ==
    IF f1 # -1
    THEN GVN_hit([m1 EXCEPT !.shallow_numbering = Put(@, old_e, f1)], f1)
    ELSE [m1 EXCEPT
            !.number = Len(m1.entries),
            !.numbering = Put(@, m1.ret, Len(m1.entries)),
            !.shallow_numbering = Put(@, m1.ret, Len(m1.entries)),
            !.entries = Append(@, [expr |-> m1.ret, use_count |-> 0])]

\* GVN::mutate(Expr)
GVN_mutate(m, e) ==
    IF e \in DOMAIN m.shallow_numbering
    THEN GVN_hit(m, m.shallow_numbering[e])
    ELSE IF m.heap[e].k = "Variable" /\ Scope_contains(m.let_substitutions, e)
    THEN GVN_hit(m, Scope_get(m.let_substitutions, e))
    ELSE LET found(f) ==
                 IF f # -1
                 THEN GVN_hit([m EXCEPT !.shallow_numbering = Put(@, e, f)], f)
                 ELSE LET rebuilt(m1) == GVN_rebuilt(m1, e, Find(m1, m1.ret))
                      IN rebuilt(IRMutator_mutate(m, e, FALSE))
         IN found(Find(m, e))

\* replacements[e] = new_e; return new_e
Memoise(m1, e) == [m1 EXCEPT !.replacements = Put(@, e, m1.ret)]

\* Replacer::mutate(Expr)
Replacer_mutate(m, e) ==
    IF e \in DOMAIN m.replacements
    THEN [m EXCEPT !.ret = m.replacements[e]]
    ELSE Memoise(IRMutator_mutate(m, e, FALSE), e)

\* IRGraphMutator::mutate without the replacement tables
IRGraphMutator_mutate_NoMemo(m, e, isStmt) == IRMutator_mutate(m, e, isStmt)

\* IRGraphMutator::mutate(Expr) and IRGraphMutator::mutate(Stmt)
IRGraphMutator_mutate(m, e, isStmt) ==
    IF e \in DOMAIN m.replacements
    THEN [m EXCEPT !.ret = m.replacements[e]]
    ELSE Memoise(IRMutator_mutate(m, e, isStmt), e)

\* the call of mutate(e) returned m1.ret
Returned(m1, e) == [m1 EXCEPT !.calls = Append(@, <<e, m1.ret>>)]

\* the virtual call of mutate
Mutate(m, e, isStmt) ==
    Returned(CASE m.cls = "GVN" /\ ~isStmt -> GVN_mutate(m, e)
               [] m.cls = "Replacer" /\ ~isStmt -> Replacer_mutate(m, e)
               [] m.cls = "IRGraphMutator" -> IRGraphMutator_mutate(m, e, isStmt)
               [] OTHER -> IRMutator_mutate(m, e, isStmt),
             e)

(***************************************************************************)
(* CSE.cpp                                                                 *)
(***************************************************************************)
RECURSIVE should_extract(_, _)
should_extract(h, e) ==
    IF is_const(h, e) THEN FALSE
    ELSE IF h[e].k = "Variable" THEN FALSE
    ELSE IF h[e].k \in {"Broadcast", "Cast"} THEN should_extract(h, h[e].c[1])
    ELSE IF h[e].k \in {"Add", "Sub", "Mul", "Div"}
    THEN ~(is_const(h, h[e].c[1]) \/ is_const(h, h[e].c[2]))
    ELSE IF h[e].k = "Ramp" THEN ~is_const(h, h[e].c[2])
    ELSE TRUE

(***************************************************************************)
(* ComputeUseCounts::include. u holds the entries of the GVN and the       *)
(* visited set of the IRGraphVisitor; e.accept(this) includes every child. *)
(***************************************************************************)
RECURSIVE include(_, _, _, _)
RECURSIVE IncludeChildren(_, _, _, _, _)
IncludeChildren(u, h, shallow, e, i) ==
    IF i > Len(h[e].c) THEN u
    ELSE IncludeChildren(include(u, h, shallow, h[e].c[i]), h, shallow, e, i + 1)

\* entry.use_count++ for the entry shallow_numbering finds
CountUse(u, shallow, e) ==
    IF e \in DOMAIN shallow
    THEN [u EXCEPT !.entries[shallow[e] + 1].use_count = @ + 1]
    ELSE u

\* visit the children if we haven't been here before
VisitOnce(u1, h, shallow, e) ==
    IF e \in u1.visited THEN u1
    ELSE IncludeChildren([u1 EXCEPT !.visited = @ \cup {e}], h, shallow, e, 1)

\* include that stops at every node seen before, extractable or not
include_MemoiseAll(u, h, shallow, e) ==
    IF ~should_extract(h, e) THEN VisitOnce(u, h, shallow, e)
    ELSE VisitOnce(CountUse(u, shallow, e), h, shallow, e)

include(u, h, shallow, e) ==
    IF ~should_extract(h, e) THEN IncludeChildren(u, h, shallow, e, 1)
    ELSE VisitOnce(CountUse(u, shallow, e), h, shallow, e)

\* the first loop with a let for every entry that is used at all
RECURSIVE PickLets_Used(_, _, _)
PickLets_Used(st, entries, i) ==
    IF i > Len(entries) THEN st
    ELSE IF entries[i].use_count > 0
    THEN PickLets_Used([heap |-> Alloc(st.heap,
                                       Variable_make(st.heap[entries[i].expr].ty, "t")),
                        lets |-> Append(st.lets, <<Len(st.heap) + 1, entries[i].expr>>),
                        replacements |-> Put(st.replacements, entries[i].expr,
                                             Len(st.heap) + 1)],
                       entries, i + 1)
    ELSE PickLets_Used(st, entries, i + 1)

\* the first loop of common_subexpression_elimination: a fresh variable and
\* a replacement for every entry used more than once. st holds the heap,
\* lets (var, expr pairs) and replacements.
RECURSIVE PickLets(_, _, _)
PickLets(st, entries, i) ==
    IF i > Len(entries) THEN st
    ELSE IF entries[i].use_count > 1
    THEN PickLets([heap |-> Alloc(st.heap,
                                  Variable_make(st.heap[entries[i].expr].ty, "t")),
                   lets |-> Append(st.lets, <<Len(st.heap) + 1, entries[i].expr>>),
                   replacements |-> Put(st.replacements, entries[i].expr,
                                        Len(st.heap) + 1)],
                  entries, i + 1)
    ELSE PickLets(st, entries, i + 1)

\* e = Let::make(lets[i-1].first, value, e)
WrapLet(m2, var, e) ==
    [m2 EXCEPT !.heap = Alloc(@, Let_make(m2.heap, var, m2.ret, e)),
               !.ret = Len(m2.heap) + 1]

\* WrapLets without "replacer.replacements.erase(value)": the value of a let
\* is replaced by the let's own variable
RECURSIVE WrapLets_NoErase(_, _, _)
WrapLets_NoErase(m, lets, i) ==
    IF i = 0 THEN m
    ELSE WrapLets_NoErase(WrapLet(Replacer_mutate(m, lets[i][2]), lets[i][1], m.ret),
                          lets, i - 1)

\* WrapLets that goes up the lets, from lets[1] to lets[Len(lets)], so that
\* the last of them is the outermost
RECURSIVE WrapLets_Ascending(_, _, _)
WrapLets_Ascending(m, lets, i) ==
    IF i = 0 THEN m
    ELSE WrapLets_Ascending(
             WrapLet(Replacer_mutate(
                         [m EXCEPT !.replacements = Erase(@, lets[Len(lets) - i + 1][2])],
                         lets[Len(lets) - i + 1][2]),
                     lets[Len(lets) - i + 1][1], m.ret),
             lets, i - 1)

\* the last loop of common_subexpression_elimination: wrap e (m.ret) in the
\* lets, from lets[i] down to lets[1]. m is the Replacer.
RECURSIVE WrapLets(_, _, _)
WrapLets(m, lets, i) ==
    IF i = 0 THEN m
    ELSE WrapLets(WrapLet(Replacer_mutate(
                              [m EXCEPT !.replacements = Erase(@, lets[i][2])],
                              lets[i][2]),
                          lets[i][1], m.ret),
                  lets, i - 1)

\* Replacer replacer(replacements); e = replacer.mutate(e); then the lets
Letify(p, canon, entries) ==
    LET wrapped(r2) == [heap |-> r2.heap, out |-> r2.ret, canon |-> canon,
                        entries |-> entries, lets |-> p.lets]
    IN wrapped(WrapLets(Replacer_mutate(
                            [NewMutator("Replacer", p.heap)
                                EXCEPT !.replacements = p.replacements],
                            canon),
                        p.lets, Len(p.lets)))

\* ComputeUseCounts count_uses(gvn); count_uses.include(e); then the rest
CountAndLetify(gvn) ==
    LET counted(u) == Letify(PickLets([heap |-> gvn.heap, lets |-> <<>>,
                                       replacements |-> EmptyMap], u.entries, 1),
                             gvn.ret, u.entries)
    IN counted(include([entries |-> gvn.entries, visited |-> {}],
                       gvn.heap, gvn.shallow_numbering, gvn.ret))

(***************************************************************************)
(* common_subexpression_elimination(Expr). Returns the heap after the call *)
(* and the handle returned (out), with what the pass computed on the way:  *)
(* the canonical form (canon), the entries with their use counts and the   *)
(* lets it introduced.                                                     *)
(***************************************************************************)
common_subexpression_elimination(h, e) ==
    IF is_const(h, e) \/ h[e].k = "Variable"
    THEN [heap |-> h, out |-> e, canon |-> e, entries |-> <<>>, lets |-> <<>>]
    ELSE CountAndLetify(GVN_mutate(NewMutator("GVN", h), e))

(***************************************************************************)
(* The meaning of an expression: its value under an assignment env of      *)
(* values to variables. A Let evaluates its body with its variable bound   *)
(* to the value of its value. A variable with no value evaluates to -1.    *)
(***************************************************************************)
RECURSIVE Eval(_, _, _)
Eval(h, e, env) ==
    LET n == h[e]
    IN CASE n.k = "IntImm" -> n.val
         [] n.k = "Variable" -> IF e \in DOMAIN env THEN env[e] ELSE -1
         [] n.k = "Let" -> Eval(h, n.c[2], Put(env, n.var, Eval(h, n.c[1], env)))
         [] n.k = "Add" -> Eval(h, n.c[1], env) + Eval(h, n.c[2], env)
         [] n.k = "Sub" -> Eval(h, n.c[1], env) - Eval(h, n.c[2], env)
         [] n.k = "Mul" -> Eval(h, n.c[1], env) * Eval(h, n.c[2], env)

(***************************************************************************)
(* The CSE specification: starting from x, v, 1 and x + x, expressions are *)
(* built bottom-up by the make calls, then the pass runs on the last       *)
(* expression built, and once more on its own result.                      *)
(***************************************************************************)
CSEKinds == {"Add"}

Leaves == <<Variable_make("Int32", "x"), Variable_make("Int32", "v"), IntImmNode(1)>>

InitHeap == Alloc(Leaves, BinaryOp_make(Leaves, "Add", 1, 1))

\* the variables of the input, which Let nodes may bind
InputVars == {1, 2}
LetVars == {2}

\* no call has been made
NoCall == [op |-> "none"]

\* no mutator pass has run
IdleMut == [pc |-> "idle", root |-> 0, heap |-> <<>>, ret |-> 0,
            visits |-> <<>>, calls |-> <<>>, kids |-> <<>>]

IdleCSE == [pc |-> "idle", in |-> 0, heap |-> <<>>, out |-> 0, canon |-> 0,
            entries |-> <<>>, lets |-> <<>>, heap2 |-> <<>>, out2 |-> 0]

\* the type keys of the node kinds, in the order of their type indexes
\* (index 0 first)
TypeKeys == <<"IntImm", "Add", "Variable">>

\* an empty dispatch table and no wrapper. The fields func_, use_count and
\* free_list are those of IRFunctor, the shared_ptr and FreeList; the others
\* record the history: registered is, per type key, the callback most
\* recently registered and not cleared since, next the next callback to be
\* registered, through the type keys registered through the wrapper, owned
\* the callbacks registered through it, cleared the type keys the FreeList
\* of the wrapper has cleared
IdleIrf == [func_ |-> <<>>, registered |-> [i \in 1..Len(TypeKeys) |-> 0],
            next |-> 1, made |-> FALSE, use_count |-> 0, free_list |-> <<>>,
            through |-> {}, owned |-> {}, cleared |-> <<>>]

\* all name counters zero (static storage), no name returned, no thread in
\* a call. hash is the std::hash<std::string> of the build; char and string
\* are the names returned by unique_name(char) and unique_name(string),
\* calls the number of calls that returned
IdleNames == [counters |-> <<>>, hash |-> "distinct", char |-> {},
              string |-> {}, calls |-> 0, threads |-> <<>>]

\* no Array handle. handles is, per handle, the ArrayNode its node_ points
\* to (0 for the null pointer), nodes is, per ArrayNode, its data (empty
\* for memory not in use), crashed says that the program has ended in an
\* access through the null pointer
IdleArr == [handles |-> <<>>, nodes |-> <<>>, crashed |-> FALSE]

InitCSE ==
    /\ heap = InitHeap
    /\ cse = IdleCSE
    /\ mut = IdleMut
    /\ call = NoCall
    /\ irf = IdleIrf
    /\ names = IdleNames
    /\ arr = IdleArr

MakeBinary ==
    /\ cse.pc = "idle"
    /\ Len(heap) < Len(InitHeap) + MaxNodes
    /\ \E k \in CSEKinds, a \in 1..Len(heap), b \in 1..Len(heap) :
          heap' = Alloc(heap, BinaryOp_make(heap, k, a, b))
    /\ UNCHANGED <<cse, mut, call, irf, names, arr>>

MakeLet ==
    /\ cse.pc = "idle"
    /\ Len(heap) < Len(InitHeap) + MaxNodes
    /\ \E var \in LetVars, value \in 1..Len(heap), body \in 1..Len(heap) :
          heap' = Alloc(heap, Let_make(heap, var, value, body))
    /\ UNCHANGED <<cse, mut, call, irf, names, arr>>

\* common_subexpression_elimination on the last expression built
RunCSE ==
    /\ cse.pc = "idle"
    /\ LET r == common_subexpression_elimination(heap, Len(heap))
       IN cse' = [IdleCSE EXCEPT !.pc = "done", !.in = Len(heap), !.heap = r.heap,
                                 !.out = r.out, !.canon = r.canon,
                                 !.entries = r.entries, !.lets = r.lets]
    /\ UNCHANGED <<heap, mut, call, irf, names, arr>>

\* common_subexpression_elimination on the result of the first call
RunCSEAgain ==
    /\ cse.pc = "done"
    /\ LET r == common_subexpression_elimination(cse.heap, cse.out)
       IN cse' = [cse EXCEPT !.pc = "again", !.heap2 = r.heap, !.out2 = r.out]
    /\ UNCHANGED <<heap, mut, call, irf, names, arr>>

NextCSE == MakeBinary \/ MakeLet \/ RunCSE \/ RunCSEAgain

SpecCSE == InitCSE /\ [][NextCSE]_vars

Envs == [InputVars -> 0..MaxVal]

\* C1: common_subexpression_elimination(e) evaluates to the same value as e
\* under every assignment of values to the free variables of e.
C1_SameValue ==
    cse.pc = "done" =>
        \A env \in Envs : Eval(cse.heap, cse.out, env) = Eval(cse.heap, cse.in, env)

(***************************************************************************)
(* NormalizeVarExprs of the tests: the variable of the n-th Let visited    *)
(* becomes t<n>, in every occurrence visited from then on; a Let is        *)
(* visited before its value, its value before its body. The result is the  *)
(* normalised expression as a tree, so that equal(a, b) of the normalised  *)
(* expressions is equality of the trees. st holds counter, new_var_exprs   *)
(* and the tree built.                                                     *)
(***************************************************************************)
RECURSIVE Normalize(_, _, _)
NormalizeLet(h, n, st) ==
    LET withBody(v, b) == [b EXCEPT !.tree = <<"Let", <<"t", st.counter>>, v.tree, b.tree>>]
        body(v) == withBody(v, Normalize(h, n.c[2], v))
    IN body(Normalize(h, n.c[1],
                      [st EXCEPT !.new_var_exprs = Put(@, n.var, st.counter),
                                 !.counter = @ + 1]))

NormalizeBinary(h, n, st) ==
    LET withB(a, b) == [b EXCEPT !.tree = <<n.k, a.tree, b.tree>>]
        second(a) == withB(a, Normalize(h, n.c[2], a))
    IN second(Normalize(h, n.c[1], st))

Normalize(h, e, st) ==
    CASE h[e].k = "Variable" ->
           [st EXCEPT !.tree = IF e \in DOMAIN st.new_var_exprs
                               THEN <<"t", st.new_var_exprs[e]>>
                               ELSE <<"Variable", e>>]
      [] h[e].k = "IntImm" -> [st EXCEPT !.tree = <<"IntImm", h[e].val>>]
      [] h[e].k = "Let" -> NormalizeLet(h, h[e], st)
      [] OTHER -> NormalizeBinary(h, h[e], st)

Normalized(h, e) ==
    Normalize(h, e, [counter |-> 0, new_var_exprs |-> EmptyMap, tree |-> <<>>]).tree

\* C2: applying common_subexpression_elimination to its own result yields an
\* expression structurally equal to that result, once the let variables of
\* both are renamed t0, t1, ... in declaration order.
C2_Idempotent ==
    cse.pc = "again" =>
        Normalized(cse.heap2, cse.out2) = Normalized(cse.heap2, cse.out)

\* the second call ran on a result with introduced lets and rebuilt it
C2_Witness ==
    /\ cse.pc = "again"
    /\ Len(cse.lets) >= 1
    /\ cse.out2 # cse.out

(***************************************************************************)
(* The tree an expression denotes once its Lets are inlined: env maps the  *)
(* variables bound so far to the trees of their values.                    *)
(***************************************************************************)
RECURSIVE Inlined(_, _, _)
Inlined(h, e, env) ==
    CASE h[e].k = "Variable" -> IF e \in DOMAIN env THEN env[e] ELSE <<"Variable", e>>
      [] h[e].k = "IntImm" -> <<"IntImm", h[e].val>>
      [] h[e].k = "Let" ->
           Inlined(h, h[e].c[2], Put(env, h[e].var, Inlined(h, h[e].c[1], env)))
      [] OTHER -> <<h[e].k, Inlined(h, h[e].c[1], env), Inlined(h, h[e].c[2], env)>>

\* how often the tree T is written in expression e: the occurrences of
\* subterms (variables and Let nodes apart) whose inlined tree is T, each
\* Let value counted where it is written and not where its variable is used
RECURSIVE Written(_, _, _, _)
Written(h, e, env, T) ==
    CASE h[e].k \in {"Variable", "IntImm"} -> 0
      [] h[e].k = "Let" ->
           Written(h, h[e].c[1], env, T)
           + Written(h, h[e].c[2], Put(env, h[e].var, Inlined(h, h[e].c[1], env)), T)
      [] OTHER ->
           (IF Inlined(h, e, env) = T THEN 1 ELSE 0)
           + Written(h, h[e].c[1], env, T) + Written(h, h[e].c[2], env, T)

\* the nodes of the expression e
RECURSIVE Subterms(_, _)
Subterms(h, e) ==
    {e} \cup UNION {Subterms(h, h[e].c[i]) : i \in 1..Len(h[e].c)}

Load_make(ty, buffer_var, index, predicate) ==
    Node("Load", ty, <<index, predicate>>, buffer_var, 0)

Store_make(buffer_var, value, index, predicate) ==
    Node("Store", "", <<value, index, predicate>>, buffer_var, 0)

AssertStmt_make(condition, message, body) ==
    Node("AssertStmt", "", <<condition, message, body>>, 0, 0)

Allocate_make(buffer_var, ty, extents, condition, body, new_expr) ==
    Node("Allocate", ty, extents \o <<condition, body, new_expr>>, buffer_var, 0)

IfThenElse_make(condition, then_case, else_case) ==
    Node("IfThenElse", "", <<condition, then_case, else_case>>, 0, 0)

Evaluate_make(v) == Node("Evaluate", "", <<v>>, 0, 0)

(***************************************************************************)
(* The mutator specification: expressions and statements are made over the *)
(* variables x and y, the literal 1, the buffer variable buf and the       *)
(* boolean literal true; then one mutator pass runs over the last node     *)
(* made.                                                                   *)
(***************************************************************************)
MutHeap == <<Variable_make("Int32", "x"), Variable_make("Int32", "y"),
             IntImmNode(1), Variable_make("Handle", "buf"),
             Node("UIntImm", "UInt1", <<>>, 0, 1)>>

\* the handles of x, y; of buf; of true
MutVars == {1, 2}
BufVar == 4
ConstTrue == 5

Exprs(h) == {e \in 1..Len(h) : ~IsStmt(h, e) /\ e # BufVar}
Stmts(h) == {e \in 1..Len(h) : IsStmt(h, e)}

InitMut ==
    /\ heap = MutHeap
    /\ cse = IdleCSE
    /\ mut = IdleMut
    /\ call = NoCall
    /\ irf = IdleIrf
    /\ names = IdleNames
    /\ arr = IdleArr

CanMake == mut.pc = "idle" /\ Len(heap) < Len(MutHeap) + MaxNodes

MakeAdd ==
    /\ CanMake
    /\ \E a \in Exprs(heap) \ {ConstTrue}, b \in Exprs(heap) \ {ConstTrue} :
          heap' = Alloc(heap, BinaryOp_make(heap, "Add", a, b))
    /\ UNCHANGED <<cse, mut, call, irf, names, arr>>

MakeLoad ==
    /\ CanMake
    /\ \E index \in Exprs(heap) \ {ConstTrue}, predicate \in MutVars \cup {ConstTrue} :
          heap' = Alloc(heap, Load_make("Int32", BufVar, index, predicate))
    /\ UNCHANGED <<cse, mut, call, irf, names, arr>>

MakeStore ==
    /\ CanMake
    /\ \E value \in Exprs(heap) \ {ConstTrue}, index \in MutVars :
          heap' = Alloc(heap, Store_make(BufVar, value, index, 2))
    /\ UNCHANGED <<cse, mut, call, irf, names, arr>>

MakeAssertStmt ==
    /\ CanMake
    /\ \E condition \in Exprs(heap), body \in Stmts(heap) \cup {Undefined} :
          heap' = Alloc(heap, AssertStmt_make(condition, 3, body))
    /\ UNCHANGED <<cse, mut, call, irf, names, arr>>

MakeEvaluate ==
    /\ CanMake
    /\ \E v \in Exprs(heap) \ {ConstTrue} :
          heap' = Alloc(heap, Evaluate_make(v))
    /\ UNCHANGED <<cse, mut, call, irf, names, arr>>

MakeBlock ==
    /\ CanMake
    /\ \E first \in Stmts(heap), rest \in Stmts(heap) :
          heap' = Block_make(heap, first, rest).heap
    /\ UNCHANGED <<cse, mut, call, irf, names, arr>>

MakeIfThenElse ==
    /\ CanMake
    /\ \E then_case \in Stmts(heap), else_case \in Stmts(heap) \cup {Undefined} :
          heap' = Alloc(heap, IfThenElse_make(1, then_case, else_case))
    /\ UNCHANGED <<cse, mut, call, irf, names, arr>>

MakeAllocate ==
    /\ CanMake
    /\ \E extent \in Exprs(heap) \ {ConstTrue}, body \in Stmts(heap),
          new_expr \in {Undefined, 1} :
          heap' = Alloc(heap, Allocate_make(BufVar, "Int32", <<extent>>, ConstTrue,
                                            body, new_expr))
    /\ UNCHANGED <<cse, mut, call, irf, names, arr>>

\* the pass returned: what mut keeps of the mutator object r; kids holds the
\* mutator after it mutated every child of the root once more, and the
\* handles these calls returned
Ran(pc, root, r, kids) ==
    [pc |-> pc, root |-> root, heap |-> kids.m.heap, ret |-> r.ret,
     visits |-> r.visits, calls |-> r.calls, kids |-> kids.c]

\* mutate(child) for every child of node e with the mutator m, left to right
MutateEachChild(m, e) == MutateChildren(m, e, Range1(Len(m.heap[e].c)), m.heap[e].c)

RunPass(pc, m) ==
    LET ran(r) == Ran(pc, Len(heap), r, MutateEachChild(r, Len(heap)))
    IN ran(Mutate(m, Len(heap), IsStmt(heap, Len(heap))))

\* IRMutator().mutate(root)
RunDefault ==
    /\ mut.pc = "idle"
    /\ Len(heap) > Len(MutHeap)
    /\ mut' = RunPass("default", NewMutator("IRMutator", heap))
    /\ UNCHANGED <<heap, cse, call, irf, names, arr>>

\* Replacer(replacements).mutate(root), replacements = {from -> 1}; the
\* statements of the root go through IRMutator::mutate(Stmt)
RunReplacer ==
    /\ mut.pc = "idle"
    /\ Len(heap) > Len(MutHeap)
    /\ \E from \in MutVars :
          mut' = RunPass("replacer", [NewMutator("Replacer", heap)
                                         EXCEPT !.replacements = (from :> 3)])
    /\ UNCHANGED <<heap, cse, call, irf, names, arr>>

\* mutate(root) of an IRGraphMutator, and of the subclass of IRGraphMutator
\* that renames x
RunGraph ==
    /\ mut.pc = "idle"
    /\ Len(heap) > Len(MutHeap)
    /\ \E fresh \in {{}, {1}} :
          mut' = RunPass("graph", [NewMutator("IRGraphMutator", heap)
                                      EXCEPT !.fresh = fresh])
    /\ UNCHANGED <<heap, cse, call, irf, names, arr>>

NextMut ==
    \/ MakeAdd \/ MakeLoad \/ MakeStore \/ MakeAssertStmt \/ MakeEvaluate
    \/ MakeBlock \/ MakeIfThenElse \/ MakeAllocate
    \/ RunDefault \/ RunReplacer \/ RunGraph

SpecMut == InitMut /\ [][NextMut]_vars

\* C4: mutate(n) of the default IRMutator returns the handle n itself, for
\* an expression or statement n of any kind; no node is made.
C4_SameNode ==
    mut.pc = "default" => mut.ret = mut.root /\ mut.heap = heap

\* the default mutator ran over an Allocate without new_expr whose body is
\* a statement with children of its own
C4_Witness ==
    /\ mut.pc = "default"
    /\ heap[mut.root].k = "Allocate"
    /\ heap[mut.root].c[4] = Undefined
    /\ heap[heap[mut.root].c[3]].c # <<>>
    /\ mut.ret = mut.root

\* the mutation of at least one child of the root returned a different node
ChildChanged == \E i \in 1..Len(mut.kids) : mut.kids[i] # heap[mut.root].c[i]

\* C5: when the mutation of at least one child returns a different node,
\* the default visit returns a new node of the same kind whose children are
\* the mutated children (up to structural equality), in the same positions,
\* and whose other fields are those of the original node.
C5_Rebuilt ==
    (mut.pc = "replacer" /\ ChildChanged) =>
        /\ mut.ret > Len(heap)
        /\ mut.heap[mut.ret].k = heap[mut.root].k
        /\ Len(mut.heap[mut.ret].c) = Len(mut.kids)
        /\ \A i \in 1..Len(mut.kids) :
              equal(mut.heap, mut.heap[mut.ret].c[i], mut.kids[i])
        /\ mut.heap[mut.ret].ty = heap[mut.root].ty
        /\ mut.heap[mut.ret].var = heap[mut.root].var
        /\ mut.heap[mut.ret].val = heap[mut.root].val

\* C6: in one IRGraphMutator pass the kind-specific visit runs at most once
\* for a node, however many parents share it, and every call of mutate on
\* one node returns the one same result.
C6_VisitedOnce ==
    mut.pc = "graph" =>
        /\ \A n \in DOMAIN mut.visits : mut.visits[n] <= 1
        /\ \A i, j \in 1..Len(mut.calls) :
              mut.calls[i][1] = mut.calls[j][1] => mut.calls[i][2] = mut.calls[j][2]

\* a node with children of its own was passed to mutate twice and both
\* calls returned the one node made for it
C6_Witness ==
    /\ mut.pc = "graph"
    /\ \E i, j \in 1..Len(mut.calls) :
          /\ i # j
          /\ mut.calls[i][1] = mut.calls[j][1]
          /\ mut.calls[i][2] = mut.calls[j][2]
          /\ mut.calls[i][2] > Len(heap)
          /\ heap[mut.calls[i][1]].c # <<>>

(***************************************************************************)
(* Block::make(const std::vector<Stmt> &): st holds the heap and result.   *)
(***************************************************************************)
\* the loop of Block::make(stmts) ending one iteration early (i > 1): the
\* statement stmts[0] is never put in front
RECURSIVE Block_make_fold_Short(_, _, _)
Block_make_fold_Short(st, stmts, i) ==
    IF i <= 1 THEN st
    ELSE Block_make_fold_Short(Block_make(st.heap, stmts[i], st.ret), stmts, i - 1)

RECURSIVE Block_make_fold(_, _, _)
Block_make_fold(st, stmts, i) ==
    IF i = 0 THEN st
    ELSE Block_make_fold(Block_make(st.heap, stmts[i], st.ret), stmts, i - 1)

Block_make_vector(h, stmts) ==
    IF stmts = <<>> THEN [heap |-> h, ret |-> Undefined]
    ELSE Block_make_fold([heap |-> h, ret |-> stmts[Len(stmts)]], stmts,
                         Len(stmts) - 1)

(***************************************************************************)
(* The Block specification: over two Evaluate statements, any sequence of  *)
(* calls of the two Block::make, each on statements made before.           *)
(***************************************************************************)
\* longest sequence passed to a function that takes a sequence
MaxLen == 3

BlockHeap == <<IntImmNode(1), Evaluate_make(1), Evaluate_make(1)>>

InitBlock ==
    /\ heap = BlockHeap
    /\ cse = IdleCSE
    /\ mut = IdleMut
    /\ call = NoCall
    /\ irf = IdleIrf
    /\ names = IdleNames
    /\ arr = IdleArr

\* a call is made while the calls before it made MaxNodes nodes or fewer
CanMakeBlock == Len(heap) <= Len(BlockHeap) + MaxNodes

\* Block::make(first, rest)
MakeBlock2 ==
    /\ CanMakeBlock
    /\ \E first \in Stmts(heap), rest \in Stmts(heap) :
          LET r == Block_make(heap, first, rest)
          IN /\ heap' = r.heap
             /\ call' = [op |-> "Block::make", args |-> <<first, rest>>,
                         ret |-> r.ret]
    /\ UNCHANGED <<cse, mut, irf, names, arr>>

\* Block::make(stmts)
MakeBlockVector ==
    /\ CanMakeBlock
    /\ \E n \in 0..MaxLen :
          \E stmts \in [1..n -> Stmts(heap)] :
             LET r == Block_make_vector(heap, stmts)
             IN /\ heap' = r.heap
                /\ call' = [op |-> "Block::make", args |-> stmts, ret |-> r.ret]
    /\ UNCHANGED <<cse, mut, irf, names, arr>>

NextBlock == MakeBlock2 \/ MakeBlockVector

SpecBlock == InitBlock /\ [][NextBlock]_vars

\* C7: in every Block made by the two Block::make from statements made by
\* them, the first child is not a Block.
C7_FirstNotBlock ==
    \A n \in 1..Len(heap) :
        heap[n].k = "Block" => heap[heap[n].c[1]].k # "Block"

\* Block::make(first, rest) was called with a first that is a Block of
\* three statements or more
C7_Witness ==
    /\ call.op = "Block::make"
    /\ Len(call.args) = 2
    /\ heap[call.args[1]].k = "Block"
    /\ heap[heap[call.args[1]].c[2]].k = "Block"
    /\ heap[call.ret].c[1] = heap[call.args[1]].c[1]

(***************************************************************************)
(* Machine integers. A word is the two's complement bit pattern of an      *)
(* integer as a sequence of 8-bit limbs, least significant limb first:     *)
(* int64_t and uint64_t are words of 8 limbs. Arithmetic on words is       *)
(* modulo 2^(8 * limbs), which is what the shift and multiply instructions *)
(* compute.                                                                *)
(***************************************************************************)
\* width of int64_t / uint64_t
Int64Bits == 64

\* the w limbs of the natural number n
RECURSIVE NatWord(_, _)
NatWord(n, w) == IF w = 0 THEN <<>> ELSE <<n % 256>> \o NatWord(n \div 256, w - 1)

\* bitwise complement
Complement(a) == [i \in 1..Len(a) |-> 255 - a[i]]

\* the w limbs of the integer n
IntWord(n, w) == IF n >= 0 THEN NatWord(n, w) ELSE Complement(NatWord(-(n + 1), w))

\* the sign bit
IsNegative(a) == a[Len(a)] >= 128

\* bit j (0 = least significant) of word a
Bit(a, j) == (a[(j \div 8) + 1] \div (2 ^ (j % 8))) % 2

\* limb i of a, fill outside the word
Limb(a, i, fill) == IF i >= 1 /\ i <= Len(a) THEN a[i] ELSE fill

\* a << s
ShiftLeft(a, s) ==
    [i \in 1..Len(a) |->
        ((Limb(a, i - (s \div 8), 0) * (2 ^ (s % 8))) % 256)
        + (Limb(a, i - (s \div 8) - 1, 0) \div (2 ^ (8 - (s % 8))))]

\* a >> s, the vacated bits taken from limbs of value fill (0 or 255)
ShiftRightFill(a, s, fill) ==
    [i \in 1..Len(a) |->
        (Limb(a, i + (s \div 8), fill) \div (2 ^ (s % 8)))
        + ((Limb(a, i + (s \div 8) + 1, fill) * (2 ^ (8 - (s % 8)))) % 256)]

\* a >> s of a signed word (arithmetic) and of an unsigned word (logical)
ShiftRightSigned(a, s) == ShiftRightFill(a, s, IF IsNegative(a) THEN 255 ELSE 0)
ShiftRightUnsigned(a, s) == ShiftRightFill(a, s, 0)

\* a * b modulo 2^(8 * Len(a)): column k of the schoolbook product, then
\* the carries
RECURSIVE Column(_, _, _, _)
Column(a, b, k, i) ==
    IF i > k THEN 0 ELSE a[i] * b[k + 1 - i] + Column(a, b, k, i + 1)

RECURSIVE Carry(_, _, _, _)
Carry(a, b, k, carry) ==
    IF k > Len(a) THEN <<>>
    ELSE <<(Column(a, b, k, 1) + carry) % 256>>
         \o Carry(a, b, k + 1, (Column(a, b, k, 1) + carry) \div 256)

Multiply(a, b) == Carry(a, b, 1, 0)

\* the word a converted to w limbs: truncated, or sign-extended
Convert(a, w) == [i \in 1..w |-> Limb(a, i, IF IsNegative(a) THEN 255 ELSE 0)]

(***************************************************************************)
(* IntImm::make and UIntImm::make: the value stored in the node made for   *)
(* a type of the given bits.                                               *)
(***************************************************************************)
\* the scalar types Int(bits) and UInt(bits)
Int_t(bits) ==
    CASE bits = 8 -> "Int8" [] bits = 16 -> "Int16" [] bits = 32 -> "Int32"
      [] bits = 64 -> "Int64"

UInt_t(bits) ==
    CASE bits = 1 -> "UInt1" [] bits = 8 -> "UInt8" [] bits = 16 -> "UInt16"
      [] bits = 32 -> "UInt32" [] bits = 64 -> "UInt64"

\* the widths the two internal_asserts on t.bits() let through
IntImmBits == {8, 16, 32, 64}
UIntImmBits == {1, 8, 16, 32, 64}

\* the signed literal with the high bits brought back by a logical shift
IntImm_make_Unsigned(bits, value) ==
    Node("IntImm", Int_t(bits), <<>>, 0,
         ShiftRightUnsigned(ShiftLeft(value, Int64Bits - bits), Int64Bits - bits))

\* value <<= (64 - t.bits()); value >>= (64 - t.bits()) on int64_t. The
\* left shift of a signed value discards the bits shifted out and the right
\* shift copies the sign bit (GCC, Clang and MSVC all define both so).
IntImm_make(bits, value) ==
    Node("IntImm", Int_t(bits), <<>>, 0,
         ShiftRightSigned(ShiftLeft(value, Int64Bits - bits), Int64Bits - bits))

\* the same two shifts on uint64_t
UIntImm_make(bits, value) ==
    Node("UIntImm", UInt_t(bits), <<>>, 0,
         ShiftRightUnsigned(ShiftLeft(value, Int64Bits - bits), Int64Bits - bits))

(***************************************************************************)
(* Specification of the literal constructors: one call of IntImm::make or  *)
(* UIntImm::make with a 64-bit argument. The arguments are the words that  *)
(* are all zeros or all ones except at the bits around the widths.         *)
(***************************************************************************)
ProbeBits == {0, 7, 8, 15, 16, 31, 32, 63}

\* limb i, from bit t up, of the word whose bits are fill except at flipped
RECURSIVE LimbOfBits(_, _, _, _)
LimbOfBits(fill, flipped, i, t) ==
    IF t > 7 THEN 0
    ELSE (2 ^ t) * ((fill + (IF 8 * (i - 1) + t \in flipped THEN 1 ELSE 0)) % 2)
         + LimbOfBits(fill, flipped, i, t + 1)

WordOfBits(fill, flipped) ==
    [i \in 1..(Int64Bits \div 8) |-> LimbOfBits(fill, flipped, i, 0)]

ImmValues == {WordOfBits(fill, flipped) : fill \in {0, 1}, flipped \in SUBSET ProbeBits}

InitImm ==
    /\ heap = <<>>
    /\ cse = IdleCSE
    /\ mut = IdleMut
    /\ call = NoCall
    /\ irf = IdleIrf
    /\ names = IdleNames
    /\ arr = IdleArr

\* IntImm::make(Int_t(bits), value)
MakeIntImm ==
    /\ call = NoCall
    /\ \E bits \in IntImmBits, value \in ImmValues :
          /\ heap' = Alloc(heap, IntImm_make(bits, value))
          /\ call' = [op |-> "IntImm::make", bits |-> bits, value |-> value,
                      ret |-> Len(heap) + 1]
    /\ UNCHANGED <<cse, mut, irf, names, arr>>

\* UIntImm::make(UInt_t(bits), value)
MakeUIntImm ==
    /\ call = NoCall
    /\ \E bits \in UIntImmBits, value \in ImmValues :
          /\ heap' = Alloc(heap, UIntImm_make(bits, value))
          /\ call' = [op |-> "UIntImm::make", bits |-> bits, value |-> value,
                      ret |-> Len(heap) + 1]
    /\ UNCHANGED <<cse, mut, irf, names, arr>>

NextImm == MakeIntImm \/ MakeUIntImm

SpecImm == InitImm /\ [][NextImm]_vars

\* the words a and b agree on their low bits bits: they are congruent
\* modulo 2^bits
Congruent(a, b, bits) == \A j \in 0..(bits - 1) : Bit(a, j) = Bit(b, j)

\* the word r is the sign-extension / zero-extension of the low bits bits
\* of the word v
IsSignExtension(r, v, bits) ==
    \A j \in 0..(Int64Bits - 1) :
       Bit(r, j) = IF j < bits THEN Bit(v, j) ELSE Bit(v, bits - 1)

IsZeroExtension(r, v, bits) ==
    \A j \in 0..(Int64Bits - 1) :
       Bit(r, j) = IF j < bits THEN Bit(v, j) ELSE 0

\* C8: IntImm::make with an Int type of b bits stores the sign-extension of
\* the low b bits of its argument, UIntImm::make with a UInt type of b bits
\* stores the argument modulo 2^b; arguments congruent modulo 2^b give
\* identical stored values, and making a literal from a stored value stores
\* that same value.
C8_Normalised ==
    /\ call.op = "IntImm::make" =>
          /\ heap[call.ret].k = "IntImm" /\ heap[call.ret].ty = Int_t(call.bits)
          /\ IsSignExtension(heap[call.ret].val, call.value, call.bits)
          /\ \A w \in ImmValues :
                Congruent(w, call.value, call.bits)
                   => IntImm_make(call.bits, w).val = heap[call.ret].val
          /\ IntImm_make(call.bits, heap[call.ret].val) = heap[call.ret]
    /\ call.op = "UIntImm::make" =>
          /\ heap[call.ret].k = "UIntImm" /\ heap[call.ret].ty = UInt_t(call.bits)
          /\ IsZeroExtension(heap[call.ret].val, call.value, call.bits)
          /\ \A w \in ImmValues :
                Congruent(w, call.value, call.bits)
                   => UIntImm_make(call.bits, w).val = heap[call.ret].val
          /\ UIntImm_make(call.bits, heap[call.ret].val) = heap[call.ret]

\* an 8-bit signed literal made from 128 plus high bits: the stored value is
\* -128, which differs from the argument
C8_Witness ==
    /\ call.op = "IntImm::make"
    /\ call.bits = 8
    /\ Bit(call.value, 7) = 1 /\ Bit(call.value, 8) = 0
    /\ heap[call.ret].val = IntWord(-128, Int64Bits \div 8)


(***************************************************************************)
(* Allocate::constant_allocation_size(extents, name). An outcome is a      *)
(* record: error says whether user_error ended the call (the ErrorReport   *)
(* of a failed condition does not return), ret is the int32_t returned.    *)
(* The operator is the set of the outcomes of the call: a product that     *)
(* does not fit int64_t is undefined, and a build then either traps or     *)
(* goes on with the wrapped product.                                       *)
(***************************************************************************)
Int32Max == 2147483647

\* a > b for signed words of the same width, decided at the most
\* significant limb that differs, from limb i down
RECURSIVE GreaterFrom(_, _, _)
GreaterFrom(a, b, i) ==
    IF i = 0 THEN FALSE
    ELSE IF a[i] # b[i] THEN a[i] > b[i]
    ELSE GreaterFrom(a, b, i - 1)

Greater(a, b) ==
    IF IsNegative(a) # IsNegative(b) THEN IsNegative(b)
    ELSE GreaterFrom(a, b, Len(a))

\* the product of the signed words a and b does not fit their width
Overflows(a, b) ==
    Multiply(Convert(a, 2 * Len(a)), Convert(b, 2 * Len(a)))
       # Convert(Multiply(a, b), 2 * Len(a))

\* user says whether the ErrorReport was made by user_error (its user flag)
Returns(ret) == [error |-> FALSE, user |-> FALSE, ret |-> ret]
UserError == [error |-> TRUE, user |-> TRUE, ret |-> <<>>]

RECURSIVE SizeFrom(_, _, _, _)
\* the check of the running product after result *= int_size->value
SizeChecked(h, extents, i, result) ==
    IF Greater(result, IntWord(Int32Max, Int64Bits \div 8)) THEN {UserError}
    ELSE SizeFrom(h, extents, i + 1, result)

\* the loop from extent i on, result the running product
SizeFrom(h, extents, i, result) ==
    IF i > Len(extents) THEN {Returns(Convert(result, 4))}
    ELSE IF h[extents[i]].k = "IntImm"
    THEN IF Overflows(result, h[extents[i]].val)
         THEN {UserError}
              \cup SizeChecked(h, extents, i, Multiply(result, h[extents[i]].val))
         ELSE SizeChecked(h, extents, i, Multiply(result, h[extents[i]].val))
    ELSE {Returns(IntWord(0, 4))}

constant_allocation_size(h, extents) ==
    SizeFrom(h, extents, 1, IntWord(1, Int64Bits \div 8))

(***************************************************************************)
(* Specification of the allocation size: one call with up to MaxLen        *)
(* extents, each the variable n or an Int(32) literal.                     *)
(***************************************************************************)
ExtentValues == <<-46341, -1, 0, 1, 3, 46341>>

AllocHeap ==
    <<Variable_make("Int32", "n")>>
    \o [i \in 1..Len(ExtentValues) |->
           IntImm_make(32, IntWord(ExtentValues[i], Int64Bits \div 8))]

InitAlloc ==
    /\ heap = AllocHeap
    /\ cse = IdleCSE
    /\ mut = IdleMut
    /\ call = NoCall
    /\ irf = IdleIrf
    /\ names = IdleNames
    /\ arr = IdleArr

ConstantAllocationSize ==
    /\ call = NoCall
    /\ \E n \in 0..MaxLen :
          \E extents \in [1..n -> 1..Len(heap)] :
             \E out \in constant_allocation_size(heap, extents) :
                call' = [op |-> "constant_allocation_size", args |-> extents,
                         error |-> out.error, user |-> out.user,
                         ret |-> out.ret]
    /\ UNCHANGED <<heap, cse, mut, irf, names, arr>>

NextAlloc == ConstantAllocationSize

SpecAlloc == InitAlloc /\ [][NextAlloc]_vars

\* every extent of the call is an integer literal
AllLiterals == \A i \in 1..Len(call.args) : heap[call.args[i]].k = "IntImm"

\* the product of the extents from extent i on, as an integer of twice the
\* width of int64_t (wide enough for MaxLen extents)
RECURSIVE Product(_, _, _)
Product(h, extents, i) ==
    IF i > Len(extents) THEN IntWord(1, Int64Bits \div 4)
    ELSE Multiply(Convert(h[extents[i]].val, Int64Bits \div 4),
                  Product(h, extents, i + 1))

\* C9: if every extent is an integer literal and the product of all the
\* extents does not exceed 2^31-1, constant_allocation_size raises no error
\* and returns exactly that product.
C9_ReturnsProduct ==
    (/\ call.op = "constant_allocation_size"
     /\ AllLiterals
     /\ ~Greater(Product(heap, call.args, 1), IntWord(Int32Max, Int64Bits \div 4)))
    => /\ ~call.error
       /\ Convert(call.ret, Int64Bits \div 4) = Product(heap, call.args, 1)

\* C10: whenever at least one extent is not an integer literal,
\* constant_allocation_size raises no error and returns 0.
C10_ZeroWhenNotAllLiterals ==
    (call.op = "constant_allocation_size" /\ ~AllLiterals)
    => /\ ~call.error
       /\ call.ret = IntWord(0, 4)


\* C11: with all extents integer literals, constant_allocation_size raises
\* an error exactly when the product of all the extents exceeds 2^31-1, and
\* the error it raises is a user error.
C11_ErrorIffTotalExceeds ==
    (call.op = "constant_allocation_size" /\ AllLiterals)
    => /\ call.error
          <=> Greater(Product(heap, call.args, 1),
                      IntWord(Int32Max, Int64Bits \div 4))
       /\ call.error => call.user


(***************************************************************************)
(* IRFunctor: the dispatch table func_ is a vector of callbacks indexed by *)
(* type index. A callback is a positive number, the empty std::function    *)
(* is NoFunction. The vector is a sequence: func_[i + 1] is the slot of     *)
(* type index i.                                                           *)
(***************************************************************************)
NoFunction == 0

\* Node::TypeKey2Index and Node::TypeIndex2Key: a one-to-one numbering of
\* the type keys
TypeKey2Index(key) == (CHOOSE i \in 1..Len(TypeKeys) : TypeKeys[i] = key) - 1
TypeIndex2Key(index) == TypeKeys[index + 1]

\* func_.resize(n, nullptr), called when func_.size() < n
Resize(func_, n) ==
    IF Len(func_) >= n THEN func_
    ELSE func_ \o [i \in 1..(n - Len(func_)) |-> NoFunction]

\* can_dispatch(n) for a node of type index type_index
can_dispatch(func_, type_index) ==
    type_index < Len(func_) /\ func_[type_index + 1] # NoFunction

\* operator() without the test of the slot
IRFunctor_call_Unchecked(func_, type_index) ==
    IF type_index < Len(func_)
    THEN [error |-> FALSE, user |-> FALSE, key |-> "",
          invoked |-> func_[type_index + 1]]
    ELSE [error |-> TRUE, user |-> FALSE, key |-> TypeIndex2Key(type_index),
          invoked |-> NoFunction]

\* operator()(n, args): the internal_assert, then the call of the slot.
\* key is the type key the error message names, invoked the callback called
IRFunctor_call(func_, type_index) ==
    IF type_index < Len(func_) /\ func_[type_index + 1] # NoFunction
    THEN [error |-> FALSE, user |-> FALSE, key |-> "",
          invoked |-> func_[type_index + 1]]
    ELSE [error |-> TRUE, user |-> FALSE, key |-> TypeIndex2Key(type_index),
          invoked |-> NoFunction]

\* set_dispatch<TNode>(f) that puts f at the end of the table
IRFunctor_set_dispatch_Append(func_, key, f) ==
    [func_ |-> Append(func_, f), error |-> FALSE]

\* set_dispatch<TNode>(f) without the internal_assert: f replaces what the
\* slot holds
IRFunctor_set_dispatch_Slot_Overwrite(grown, tindex, f) ==
    [func_ |-> [grown EXCEPT ![tindex + 1] = f], error |-> FALSE]

\* set_dispatch<TNode>(f): the table after the call and whether the
\* internal_assert failed
IRFunctor_set_dispatch_Slot(grown, tindex, f) ==
    IF grown[tindex + 1] # NoFunction
    THEN [func_ |-> grown, error |-> TRUE]
    ELSE [func_ |-> [grown EXCEPT ![tindex + 1] = f], error |-> FALSE]

IRFunctor_set_dispatch(func_, key, f) ==
    IRFunctor_set_dispatch_Slot(Resize(func_, TypeKey2Index(key) + 1),
                                TypeKey2Index(key), f)

\* clear_dispatch<TNode>()
IRFunctor_clear_dispatch(func_, key) ==
    [Resize(func_, TypeKey2Index(key) + 1) EXCEPT ![TypeKey2Index(key) + 1] = NoFunction]


\* ~FreeList(): the recorded callbacks run in order; each is the
\* clear_dispatch of the type key it was appended for
RECURSIVE FreeList_destroy(_, _, _)
FreeList_destroy(func_, free_list, i) ==
    IF i > Len(free_list) THEN func_
    ELSE FreeList_destroy(IRFunctor_clear_dispatch(func_, free_list[i]),
                          free_list, i + 1)

\* IRFunctorWrapper::set_dispatch that does not record the registration
IRFunctorWrapper_record_Nothing(free_list, key, error) == free_list

\* IRFunctorWrapper::set_dispatch<TNode>(f): the free list after the call.
\* A failed internal_assert of irf_->set_dispatch leaves the call before
\* the append
IRFunctorWrapper_record(free_list, key, error) ==
    IF error THEN free_list ELSE Append(free_list, key)

(***************************************************************************)
(* Specification of the dispatch table: calls of set_dispatch,             *)
(* clear_dispatch and operator() on one table, directly and through one    *)
(* IRFunctorWrapper and its copies. The table outlives the wrapper (the    *)
(* table is the function-local static the wrapper is built from).          *)
(***************************************************************************)
\* number of callbacks registered, and of copies of the wrapper alive at
\* once
MaxCallbacks == 3
MaxCopies == 2

InitFunctor ==
    /\ heap = <<>>
    /\ cse = IdleCSE
    /\ mut = IdleMut
    /\ call = NoCall
    /\ irf = IdleIrf
    /\ names = IdleNames
    /\ arr = IdleArr

\* the history after set_dispatch of the callback irf.next for key
Registered(r, key) ==
    [irf EXCEPT !.func_ = r.func_,
                !.next = IF r.error THEN @ ELSE @ + 1,
                !.registered[TypeKey2Index(key) + 1] =
                    IF r.error THEN @ ELSE irf.next]

\* vtable.set_dispatch<key>(f) with a callback f not used before
SetDispatch ==
    /\ irf.next <= MaxCallbacks
    /\ \E i \in 1..Len(TypeKeys) :
          /\ irf' = Registered(IRFunctor_set_dispatch(irf.func_, TypeKeys[i], irf.next),
                               TypeKeys[i])
          /\ call' = [op |-> "set_dispatch", key |-> TypeKeys[i],
                      error |-> IRFunctor_set_dispatch(irf.func_, TypeKeys[i], irf.next).error]
    /\ UNCHANGED <<heap, cse, mut, names, arr>>

\* vtable.clear_dispatch<key>()
ClearDispatch ==
    /\ \E i \in 1..Len(TypeKeys) :
          /\ irf' = [irf EXCEPT !.func_ = IRFunctor_clear_dispatch(irf.func_, TypeKeys[i]),
                                !.registered[i] = NoFunction]
          /\ call' = [op |-> "clear_dispatch", key |-> TypeKeys[i]]
    /\ UNCHANGED <<heap, cse, mut, names, arr>>

\* vtable(n) for a node n of the type key
Invoke ==
    /\ \E i \in 1..Len(TypeKeys) :
          call' = [op |-> "operator()", node |-> TypeKeys[i],
                   out |-> IRFunctor_call(irf.func_, TypeKey2Index(TypeKeys[i]))]
    /\ UNCHANGED <<heap, cse, mut, irf, names, arr>>

\* make_irfunctor_wrapper(&vtable)
MakeWrapper ==
    /\ ~irf.made
    /\ irf' = [irf EXCEPT !.made = TRUE, !.use_count = 1]
    /\ call' = [op |-> "IRFunctorWrapper"]
    /\ UNCHANGED <<heap, cse, mut, names, arr>>

\* the copy constructor of the wrapper: the copy shares the free list
CopyWrapper ==
    /\ irf.use_count >= 1
    /\ irf.use_count < MaxCopies
    /\ irf' = [irf EXCEPT !.use_count = @ + 1]
    /\ call' = [op |-> "IRFunctorWrapper(const IRFunctorWrapper&)"]
    /\ UNCHANGED <<heap, cse, mut, names, arr>>

\* the history after the wrapper's set_dispatch of irf.next for key
RegisteredThrough(r, key) ==
    [Registered(r, key) EXCEPT
        !.free_list = IRFunctorWrapper_record(@, key, r.error),
        !.through = IF r.error THEN @ ELSE @ \cup {key},
        !.owned = IF r.error THEN @ ELSE @ \cup {irf.next}]

\* wrapper.set_dispatch<key>(f) through any copy alive
WrapperSetDispatch ==
    /\ irf.use_count >= 1
    /\ irf.next <= MaxCallbacks
    /\ \E i \in 1..Len(TypeKeys) :
          /\ irf' = RegisteredThrough(
                       IRFunctor_set_dispatch(irf.func_, TypeKeys[i], irf.next),
                       TypeKeys[i])
          /\ call' = [op |-> "IRFunctorWrapper::set_dispatch", key |-> TypeKeys[i],
                      error |-> IRFunctor_set_dispatch(irf.func_, TypeKeys[i], irf.next).error]
    /\ UNCHANGED <<heap, cse, mut, names, arr>>

\* the destructor of a copy: the shared_ptr releases the FreeList, whose
\* destructor runs when this was the last copy
DestroyWrapper ==
    /\ irf.use_count >= 1
    /\ irf' = IF irf.use_count > 1
              THEN [irf EXCEPT !.use_count = @ - 1]
              ELSE [irf EXCEPT
                       !.use_count = 0,
                       !.func_ = FreeList_destroy(@, irf.free_list, 1),
                       !.cleared = irf.free_list,
                       !.registered =
                           [i \in 1..Len(TypeKeys) |->
                               IF TypeKeys[i] \in SeqToSet(irf.free_list)
                               THEN NoFunction ELSE irf.registered[i]]]
    /\ call' = [op |-> "~IRFunctorWrapper"]
    /\ UNCHANGED <<heap, cse, mut, names, arr>>

NextFunctor ==
    \/ SetDispatch \/ ClearDispatch \/ Invoke
    \/ MakeWrapper \/ CopyWrapper \/ WrapperSetDispatch \/ DestroyWrapper

SpecFunctor == InitFunctor /\ [][NextFunctor]_vars

\* C12: invoking the table on a node whose kind has no registered callback
\* (its slot is beyond the table, was never set, or was cleared) fails with
\* an internal error that names the type key of the kind, and no callback
\* is invoked.
C12_UnregisteredFails ==
    (/\ call.op = "operator()"
     /\ irf.registered[TypeKey2Index(call.node) + 1] = NoFunction)
    => /\ call.out.error /\ ~call.out.user
       /\ call.out.key = call.node
       /\ call.out.invoked = NoFunction

\* the invoked kind has an empty slot inside a table that holds a callback
\* of another kind
C12_Witness ==
    /\ call.op = "operator()"
    /\ call.out.error
    /\ TypeKey2Index(call.node) < Len(irf.func_)
    /\ \E j \in 1..Len(irf.func_) : irf.func_[j] # NoFunction

\* C13: after any sequence of set_dispatch and clear_dispatch calls,
\* invoking the table on a node of a kind calls exactly the callback most
\* recently registered for that kind and not cleared since: the call made
\* did so, and a call for any kind would.
C13_CallsRegistered ==
    /\ (/\ call.op = "operator()"
        /\ irf.registered[TypeKey2Index(call.node) + 1] # NoFunction)
       => /\ ~call.out.error
          /\ call.out.invoked = irf.registered[TypeKey2Index(call.node) + 1]
    /\ \A i \in 1..Len(TypeKeys) :
          IRFunctor_call(irf.func_, i - 1).invoked = irf.registered[i]

\* the kind of type index 0 is invoked and calls a callback registered
\* after the table had grown for a kind of a higher type index, which is
\* still registered
C13_Witness ==
    /\ call.op = "operator()"
    /\ TypeKey2Index(call.node) = 0
    /\ ~call.out.error
    /\ \E j \in 2..Len(irf.func_) :
          irf.func_[j] # NoFunction /\ irf.func_[j] < call.out.invoked

\* C14: once the last copy of the wrapper has been destroyed, clear_dispatch
\* has run for every type key registered through a copy of it and the table
\* holds no callback registered through it; while a copy is alive the
\* wrapper has cleared nothing.
C14_ClearedByLastCopy ==
    /\ (irf.made /\ irf.use_count = 0)
       => /\ SeqToSet(irf.cleared) = irf.through
          /\ \A j \in 1..Len(irf.func_) : irf.func_[j] \notin irf.owned
    /\ irf.use_count >= 1 => irf.cleared = <<>>

\* the destructor of the last copy has cleared the type keys registered
\* through the wrapper, and the table still holds a callback that was
\* registered directly
C14_Witness ==
    /\ call.op = "~IRFunctorWrapper"
    /\ irf.use_count = 0
    /\ irf.cleared # <<>>
    /\ \E j \in 1..Len(irf.func_) : irf.func_[j] # NoFunction


(***************************************************************************)
(* unique_name. A string is a sequence of characters, a character a string *)
(* of length one. The counters are the array unique_name_counters, kept as *)
(* a function on the indexes that were incremented (the others are zero).  *)
(***************************************************************************)
num_unique_name_counters == 16384

Digits == <<"0", "1", "2", "3", "4", "5", "6", "7", "8", "9">>

isdigit(c) == \E d \in 1..Len(Digits) : Digits[d] = c

\* std::to_string of a count that is not negative
RECURSIVE to_string(_)
to_string(n) ==
    IF n < 10 THEN <<Digits[n + 1]>>
    ELSE to_string(n \div 10) \o <<Digits[(n % 10) + 1]>>

\* the character as an integer (ASCII)
CharCode(c) ==
    CASE c = "$" -> 36
      [] c = "_" -> 95
      [] c = "a" -> 97
      [] c = "v" -> 118
      [] isdigit(c) -> 47 + (CHOOSE d \in 1..Len(Digits) : Digits[d] = c)

\* std::hash<std::string>: left to the standard library. Two are modelled:
\* one that tells the strings used apart, one that sends every string to
\* the counter of the character 'a'
RECURSIVE HashFrom(_, _, _)
HashFrom(s, i, h) ==
    IF i > Len(s) THEN h
    ELSE HashFrom(s, i + 1, (h * 31 + CharCode(s[i])) % num_unique_name_counters)

Hash(hash, s) == IF hash = "colliding" THEN CharCode("a") ELSE HashFrom(s, 1, 7)

Counter(counters, h) == IF h \in DOMAIN counters THEN counters[h] ELSE 0

\* unique_count(h): the value of the counter before the increment, and the
\* counters after it
unique_count(counters, h) ==
    [count |-> Counter(counters, h % num_unique_name_counters),
     counters |-> [j \in DOMAIN counters \cup {h % num_unique_name_counters} |->
                      IF j = h % num_unique_name_counters
                      THEN Counter(counters, j) + 1 ELSE counters[j]]]

\* unique_name(char prefix): '$' is rewritten to '_' first, so both draw
\* from the counter of '_'
CharPrefix(prefix) == IF prefix = "$" THEN "_" ELSE prefix

CharName(prefix, count) == <<CharPrefix(prefix)>> \o to_string(count)

unique_name_char(counters, prefix) ==
    [name |-> CharName(prefix,
                 unique_count(counters, CharCode(CharPrefix(prefix))).count),
     counters |-> unique_count(counters, CharCode(CharPrefix(prefix))).counters]

\* the loop of unique_name(const std::string &): '$' rewritten to '_'
Sanitized(prefix) ==
    [i \in 1..Len(prefix) |-> IF prefix[i] = "$" THEN "_" ELSE prefix[i]]

\* num_dollars when the loop is at character i, and at its end
NumDollars(prefix, i) == Cardinality({j \in 1..i : prefix[j] = "$"})

\* a test of the char pattern that never matches
matches_char_pattern_Never(prefix) == FALSE

\* no non-digit after the first character, and more than one character
matches_char_pattern(prefix) ==
    /\ \A i \in 2..Len(prefix) : isdigit(Sanitized(prefix)[i])
    /\ Len(prefix) > 1

\* no non-digit (in the sanitized string) after the first character at a
\* point where num_dollars is not zero, and one '$' in all
matches_string_pattern(prefix) ==
    /\ \A i \in 2..Len(prefix) :
          ~(~isdigit(Sanitized(prefix)[i]) /\ NumDollars(prefix, i) # 0)
    /\ NumDollars(prefix, Len(prefix)) = 1

\* the string returned for the count drawn
StringName(prefix, count) ==
    IF /\ count = 0
       /\ ~matches_char_pattern(prefix)
       /\ ~matches_string_pattern(prefix)
    THEN prefix
    ELSE Sanitized(prefix) \o <<"$">> \o to_string(count)

unique_name(counters, hash, prefix) ==
    [name |-> StringName(prefix,
                 unique_count(counters, Hash(hash, Sanitized(prefix))).count),
     counters |-> unique_count(counters, Hash(hash, Sanitized(prefix))).counters]

(***************************************************************************)
(* Specification of unique_name called from one thread: up to MaxCalls     *)
(* calls of the two overloads.                                             *)
(***************************************************************************)
MaxCalls == 4

CharPrefixes == {"a", "$", "_", "1"}

StringPrefixes ==
    {<<>>, <<"a">>, <<"$">>, <<"a", "0">>, <<"a", "1">>, <<"$", "1">>,
     <<"a", "$">>, <<"a", "$", "1">>, <<"a", "_", "1">>, <<"a", "$", "0">>}

InitNames ==
    /\ heap = <<>>
    /\ cse = IdleCSE
    /\ mut = IdleMut
    /\ call = NoCall
    /\ irf = IdleIrf
    /\ arr = IdleArr
    /\ \E hash \in {"distinct", "colliding"} :
          names = [IdleNames EXCEPT !.hash = hash]

UniqueNameChar ==
    /\ names.calls < MaxCalls
    /\ \E prefix \in CharPrefixes :
          /\ names' = [names EXCEPT
                          !.counters = unique_name_char(@, prefix).counters,
                          !.char = @ \cup {unique_name_char(names.counters, prefix).name},
                          !.calls = @ + 1]
          /\ call' = [op |-> "unique_name(char)", prefix |-> prefix,
                      ret |-> unique_name_char(names.counters, prefix).name]
    /\ UNCHANGED <<heap, cse, mut, irf, arr>>

UniqueNameString ==
    /\ names.calls < MaxCalls
    /\ \E prefix \in StringPrefixes :
          /\ names' = [names EXCEPT
                          !.counters = unique_name(@, names.hash, prefix).counters,
                          !.string = @ \cup {unique_name(names.counters, names.hash, prefix).name},
                          !.calls = @ + 1]
          /\ call' = [op |-> "unique_name(string)", prefix |-> prefix,
                      ret |-> unique_name(names.counters, names.hash, prefix).name]
    /\ UNCHANGED <<heap, cse, mut, irf, arr>>

NextNames == UniqueNameChar \/ UniqueNameString

SpecNames == InitNames /\ [][NextNames]_vars

\* C15: over any sequence of calls of unique_name(char) and
\* unique_name(string), no two calls return the same string: the names
\* returned are as many as the calls that returned them.
C15_NoTwoCallsSameName ==
    Cardinality(names.char \cup names.string) = names.calls

\* C16: no string returned by unique_name(char) is equal to a string
\* returned by unique_name(string), suffixed or verbatim.
C16_CharNotString == names.char \cap names.string = {}

\* both overloads have returned names, among them a prefix returned verbatim
\* that has more than one character and a name of the char family drawn
\* from a counter that a string shares
C16_Witness ==
    /\ names.hash = "colliding"
    /\ \E n \in names.char : n[1] = "a" /\ n[2] # "0"
    /\ \E n \in names.string : Len(n) > 1 /\ \A i \in 1..Len(n) : n[i] # "$"


(***************************************************************************)
(* Specification of unique_name(char) called from several threads with the *)
(* prefixes '$' and '_', which are the same prefix once '$' is rewritten.  *)
(* A call is three steps of its thread: the entry, the increment           *)
(* unique_name_counters[h]++ of the std::atomic<int>, and the return of    *)
(* the formatted name. A thread record holds the position pc of the        *)
(* thread, the prefix, the value observed that the counter had at the      *)
(* entry, and the count drawn.                                             *)
(***************************************************************************)
MaxThreads == 2

IdleThread == [pc |-> "idle", prefix |-> "", observed |-> 0, count |-> 0]

ThreadPrefixes == {"$", "_"}

\* an increment that adds one to the value the counter had at the entry
fetch_add_Stale(counters, h, observed) == observed

\* std::atomic<int>::operator++(int): the read-modify-write reads the
\* value the counter has at the step itself
fetch_add(counters, h, observed) == Counter(counters, h)

InitThreads ==
    /\ heap = <<>>
    /\ cse = IdleCSE
    /\ mut = IdleMut
    /\ call = NoCall
    /\ irf = IdleIrf
    /\ names = [IdleNames EXCEPT !.threads = [t \in 1..MaxThreads |-> IdleThread]]
    /\ arr = IdleArr

\* calls started and not yet returned
Active == {t \in 1..MaxThreads : names.threads[t].pc # "idle"}

\* thread t enters unique_name(prefix)
Enter(t) ==
    /\ names.threads[t].pc = "idle"
    /\ names.calls + Cardinality(Active) < MaxCalls
    /\ \E prefix \in ThreadPrefixes :
          names' = [names EXCEPT !.threads[t] =
                       [pc |-> "count", prefix |-> prefix,
                        observed |-> Counter(names.counters, CharCode(CharPrefix(prefix))),
                        count |-> 0]]
    /\ call' = [op |-> "enter", thread |-> t]
    /\ UNCHANGED <<heap, cse, mut, irf, arr>>

\* thread t executes unique_name_counters[h]++
Increment(t) ==
    /\ names.threads[t].pc = "count"
    /\ names' = [names EXCEPT
                    !.threads[t].pc = "return",
                    !.threads[t].count =
                        fetch_add(names.counters, CharCode(CharPrefix(names.threads[t].prefix)),
                                  names.threads[t].observed),
                    !.counters =
                        (CharCode(CharPrefix(names.threads[t].prefix)) :>
                            fetch_add(names.counters, CharCode(CharPrefix(names.threads[t].prefix)),
                                      names.threads[t].observed) + 1) @@ @]
    /\ call' = [op |-> "unique_count", thread |-> t]
    /\ UNCHANGED <<heap, cse, mut, irf, arr>>

\* thread t returns prefix + std::to_string(count)
Return(t) ==
    /\ names.threads[t].pc = "return"
    /\ names' = [names EXCEPT
                    !.threads[t] = IdleThread,
                    !.char = @ \cup {CharName(names.threads[t].prefix,
                                              names.threads[t].count)},
                    !.calls = @ + 1]
    /\ call' = [op |-> "unique_name(char)", thread |-> t,
                prefix |-> names.threads[t].prefix,
                ret |-> CharName(names.threads[t].prefix, names.threads[t].count)]
    /\ UNCHANGED <<heap, cse, mut, irf, arr>>

NextThreads == \E t \in 1..MaxThreads : Enter(t) \/ Increment(t) \/ Return(t)

SpecThreads == InitThreads /\ [][NextThreads]_vars

\* the threads that have drawn a count and not returned yet
Drawn == {t \in 1..MaxThreads : names.threads[t].pc = "return"}

\* C17: under every interleaving of the threads each call draws a different
\* count from the shared counter: the counts held by threads differ from
\* each other and name none of the names returned, the names returned are
\* as many as the calls, and the counter has advanced by one for every
\* draw.
C17_DistinctCounts ==
    /\ \A t, u \in Drawn : t # u => names.threads[t].count # names.threads[u].count
    /\ \A t \in Drawn :
          CharName(names.threads[t].prefix, names.threads[t].count) \notin names.char
    /\ Cardinality(names.char) = names.calls
    /\ Counter(names.counters, CharCode("_")) = names.calls + Cardinality(Drawn)

\* a thread holds a count larger than the value the counter had when it
\* entered: another thread incremented the counter in between, and a call
\* has returned
C17_Witness ==
    /\ Cardinality(Drawn) >= 1
    /\ names.calls >= 1
    /\ \E t \in Drawn : names.threads[t].observed < names.threads[t].count


(***************************************************************************)
(* div_imp<T> and mod_imp<T> for a signed integer type T of bits bits      *)
(* (int8_t and int32_t are modelled; int is 32 bits). Operands narrower    *)
(* than int are promoted to int, so their arithmetic cannot overflow; for  *)
(* T = int the arithmetic is in T itself. The result of a call is the set  *)
(* of its outcomes: where the C++ expression is undefined (INT_MIN / -1,   *)
(* INT_MIN % -1, signed overflow of +) the build either traps or goes on   *)
(* with the wrapped value.                                                 *)
(***************************************************************************)
IntBits == 32

\* the largest and the smallest value of a signed type
MaxOf(bits) == (2 ^ (bits - 2) - 1) + 2 ^ (bits - 2)
MinOf(bits) == -MaxOf(bits) - 1

Value(v) == [trap |-> FALSE, val |-> v]
Trap == [trap |-> TRUE, val |-> 0]

\* |b| for b that is not the smallest value of its type
Magnitude(b) == IF b < 0 THEN -b ELSE b

\* a % b and a / b of C++ (truncation towards zero), where defined
Remainder(a, b, bits) ==
    IF b = MinOf(bits) THEN (IF a = b THEN 0 ELSE a)
    ELSE IF a < 0 /\ a % Magnitude(b) # 0
         THEN (a % Magnitude(b)) - Magnitude(b)
         ELSE a % Magnitude(b)

QuotientBy(a, d) ==
    IF a < 0 /\ a % d # 0 THEN (a \div d) + 1 ELSE a \div d

Quotient(a, b, bits) ==
    IF b = MinOf(bits) THEN (IF a = b THEN 1 ELSE 0)
    ELSE IF b < 0 THEN -QuotientBy(a, -b) ELSE QuotientBy(a, b)

\* a / b and a % b are undefined: the quotient is not representable in the
\* type of the expression
DivisionOverflows(a, b, bits) ==
    bits = IntBits /\ a = MinOf(bits) /\ b = -1

\* (T)x for x that exceeds the range of T by less than its width
ToT(x, bits) ==
    IF x > MaxOf(bits) THEN ((x - MaxOf(bits)) - MaxOf(bits)) - 2
    ELSE IF x < MinOf(bits) THEN ((x + MaxOf(bits)) + MaxOf(bits)) + 2
    ELSE x

\* (T)std::abs((int64_t)b)
AbsAsT(b, bits) == IF b = MinOf(bits) THEN b ELSE Magnitude(b)

\* x >> n of a signed value
RECURSIVE ShiftRight(_, _)
ShiftRight(x, n) == IF n = 0 THEN x ELSE ShiftRight(x \div 2, n - 1)

\* x & y and ~x of two's complement values
RECURSIVE BitAnd(_, _)
BitAnd(x, y) ==
    IF x = 0 \/ y = 0 THEN 0
    ELSE IF x = -1 THEN y
    ELSE IF y = -1 THEN x
    ELSE (x % 2) * (y % 2) + 2 * BitAnd(x \div 2, y \div 2)

BitNot(x) == -x - 1

\* r + (r < 0 ? (T)std::abs((int64_t)b) : 0), then the conversion of the
\* return: for T = int a negative r plus INT_MIN overflows
ModAdjusted(r, b, bits) ==
    IF r >= 0 THEN {Value(r)}
    ELSE IF bits = IntBits /\ AbsAsT(b, bits) < 0
         THEN {Trap, Value((r + MaxOf(bits)) + 1)}
         ELSE {Value(ToT(r + AbsAsT(b, bits), bits))}

mod_imp(a, b, bits) ==
    IF DivisionOverflows(a, b, bits) THEN {Trap, Value(0)}
    ELSE ModAdjusted(Remainder(a, b, bits), b, bits)

\* q - (rs & bs) + (rs & ~bs), for q = a / b, r = a - q * b
DivAdjusted(q, r, b, bits) ==
    q - BitAnd(ShiftRight(r, bits - 1), ShiftRight(b, bits - 1))
      + BitAnd(ShiftRight(r, bits - 1), BitNot(ShiftRight(b, bits - 1)))

div_imp(a, b, bits) ==
    IF DivisionOverflows(a, b, bits) THEN {Trap, Value(a)}
    ELSE {Value(ToT(DivAdjusted(Quotient(a, b, bits),
                                a - Quotient(a, b, bits) * b, b, bits),
                    bits))}

(***************************************************************************)
(* Specification of the division: one evaluation of div_imp(a, b) and      *)
(* mod_imp(a, b) for int8_t (all values) or int32_t (values at the ends    *)
(* of the range and around zero), b not zero.                              *)
(***************************************************************************)
DivTypes == {8, IntBits}

DivValues(bits) ==
    IF bits = 8 THEN MinOf(8)..MaxOf(8)
    ELSE {MinOf(bits), MinOf(bits) + 1, -7, -3, -2, -1, 0, 1, 2, 3, 7,
          MaxOf(bits) - 1, MaxOf(bits)}

InitDiv ==
    /\ heap = <<>>
    /\ cse = IdleCSE
    /\ mut = IdleMut
    /\ call = NoCall
    /\ irf = IdleIrf
    /\ names = IdleNames
    /\ arr = IdleArr

DivMod ==
    /\ call = NoCall
    /\ \E bits \in DivTypes :
          \E a \in DivValues(bits), b \in DivValues(bits) \ {0} :
             \E q \in div_imp(a, b, bits), r \in mod_imp(a, b, bits) :
                call' = [op |-> "div_imp, mod_imp", bits |-> bits,
                         a |-> a, b |-> b, div |-> q, mod |-> r]
    /\ UNCHANGED <<heap, cse, mut, irf, names, arr>>

NextDiv == DivMod

SpecDiv == InitDiv /\ [][NextDiv]_vars

\* a + b of two words of the same width, modulo the width
RECURSIVE AddFrom(_, _, _, _)
AddFrom(a, b, i, carry) ==
    IF i > Len(a) THEN <<>>
    ELSE <<(a[i] + b[i] + carry) % 256>>
         \o AddFrom(a, b, i + 1, (a[i] + b[i] + carry) \div 256)

\* q * b + r = a as integers (computed in 64 bits, where it is exact)
IsDivision(a, b, q, r) ==
    AddFrom(Multiply(IntWord(q, 8), IntWord(b, 8)), IntWord(r, 8), 1, 0)
       = IntWord(a, 8)

\* 0 <= r < |b|
IsRemainder(r, b) == r >= 0 /\ (IF b > 0 THEN r < b ELSE b < -r)

\* C18: for all a and b # 0 of a signed integer type, div_imp and mod_imp
\* return values that satisfy the Euclidean definition:
\* div_imp(a, b) * b + mod_imp(a, b) = a and 0 <= mod_imp(a, b) < |b|.
C18_Euclidean ==
    call.op = "div_imp, mod_imp"
    => /\ ~call.div.trap /\ ~call.mod.trap
       /\ IsDivision(call.a, call.b, call.div.val, call.mod.val)
       /\ IsRemainder(call.mod.val, call.b)


(***************************************************************************)
(* Array<T>: a handle holds the shared_ptr node_ to an ArrayNode, whose    *)
(* data is the vector of the elements. An ArrayNode lives while a handle   *)
(* points to it.                                                           *)
(***************************************************************************)
nullptr == 0

\* node_.use_count() of ArrayNode n
use_count(a, n) == Cardinality({h \in 1..Len(a.handles) : a.handles[h] = n})

\* std::make_shared<ArrayNode>(): memory no handle points to
NewNode(a) ==
    CHOOSE n \in 1..Len(a.nodes) :
       /\ use_count(a, n) = 0
       /\ \A m \in 1..(n - 1) : use_count(a, m) # 0

\* the first handle that points to the ArrayNode of handle h
FirstHandle(a, h) ==
    CHOOSE g \in 1..h :
       /\ a.handles[g] = a.handles[h]
       /\ \A f \in 1..(g - 1) : a.handles[f] # a.handles[h]

\* the ArrayNodes no handle points to any more are destroyed. An ArrayNode
\* that stays is named by its first handle: an address has no meaning but
\* to tell one ArrayNode from another
Released(a) ==
    [a EXCEPT !.handles = [h \in 1..Len(a.handles) |->
                              IF a.handles[h] = nullptr THEN nullptr
                              ELSE FirstHandle(a, h)],
              !.nodes = [k \in 1..Len(a.nodes) |->
                            IF /\ k <= Len(a.handles)
                               /\ a.handles[k] # nullptr
                               /\ FirstHandle(a, k) = k
                            THEN a.nodes[a.handles[k]]
                            ELSE <<>>]]

\* size() and the elements operator[] gives, through handle h
Array_size(a, h) ==
    IF a.handles[h] = nullptr THEN 0 ELSE Len(a.nodes[a.handles[h]])

Array_elements(a, h) ==
    IF a.handles[h] = nullptr THEN <<>> ELSE a.nodes[a.handles[h]]

\* CopyOnWrite that never copies
Array_CopyOnWrite_InPlace(a, h) == a

\* CopyOnWrite(): nothing for the null pointer and for a unique node,
\* else node_ becomes a copy of the ArrayNode
Array_CopyOnWrite(a, h) ==
    IF a.handles[h] = nullptr \/ use_count(a, a.handles[h]) = 1 THEN a
    ELSE [a EXCEPT !.nodes[NewNode(a)] = a.nodes[a.handles[h]],
                   !.handles[h] = NewNode(a)]

\* ->data.push_back(item.node_) and ->data[i] = value.node_ on node_.get():
\* through the null pointer the access is undefined and the program ends
Array_data_push_back(a, h, item) ==
    IF a.handles[h] = nullptr THEN [a EXCEPT !.crashed = TRUE]
    ELSE [a EXCEPT !.nodes[a.handles[h]] = Append(@, item)]

Array_data_set(a, h, i, value) ==
    IF a.handles[h] = nullptr THEN [a EXCEPT !.crashed = TRUE]
    ELSE [a EXCEPT !.nodes[a.handles[h]][i + 1] = value]

\* push_back(item) and Set(i, value)
Array_push_back(a, h, item) ==
    Released(Array_data_push_back(Array_CopyOnWrite(a, h), h, item))

Array_Set(a, h, i, value) ==
    Released(Array_data_set(Array_CopyOnWrite(a, h), h, i, value))

\* assign(begin, end): a new ArrayNode with the elements
Array_assign(a, h, items) ==
    Released([a EXCEPT !.nodes[NewNode(a)] = items, !.handles[h] = NewNode(a)])

\* operator=(const Array<T> &other): std::move of a const reference copies
Array_copy(a, h, other) ==
    Released([a EXCEPT !.handles[h] = a.handles[other]])

(***************************************************************************)
(* Specification of Array: MaxHandles handles, default constructed, that   *)
(* are assigned lists of up to MaxSize elements and each other, and        *)
(* mutated by push_back and Set. The elements are two node references.    *)
(***************************************************************************)
MaxHandles == 2

MaxSize == 2

Items == {"x", "y"}

InitArray ==
    /\ heap = <<>>
    /\ cse = IdleCSE
    /\ mut = IdleMut
    /\ call = NoCall
    /\ irf = IdleIrf
    /\ names = IdleNames
    /\ arr = [handles |-> [h \in 1..MaxHandles |-> nullptr],
              nodes |-> [n \in 1..(MaxHandles + 1) |-> <<>>],
              crashed |-> FALSE]

\* handles[h] = Array<T>(items) for a list of up to MaxSize elements
Assign ==
    /\ ~arr.crashed
    /\ \E h \in 1..MaxHandles, n \in 0..MaxSize :
          \E items \in [1..n -> Items] :
             /\ arr' = Array_assign(arr, h, items)
             /\ call' = [op |-> "assign", h |-> h]
    /\ UNCHANGED <<heap, cse, mut, irf, names>>

\* handles[h] = handles[other]
Copy ==
    /\ ~arr.crashed
    /\ \E h \in 1..MaxHandles, other \in 1..MaxHandles :
          /\ h # other
          /\ arr' = Array_copy(arr, h, other)
          /\ call' = [op |-> "operator=", h |-> h, other |-> other]
    /\ UNCHANGED <<heap, cse, mut, irf, names>>

\* handles[h].push_back(item). The call record keeps what the handle showed
\* before and whether its node was shared with another handle
PushBack ==
    /\ ~arr.crashed
    /\ \E h \in 1..MaxHandles, item \in Items :
          /\ Array_size(arr, h) < MaxSize
          /\ arr' = Array_push_back(arr, h, item)
          /\ call' = [op |-> "push_back", h |-> h, item |-> item,
                      before |-> Array_elements(arr, h),
                      shared |-> (arr.handles[h] # nullptr
                                  /\ use_count(arr, arr.handles[h]) > 1)]
    /\ UNCHANGED <<heap, cse, mut, irf, names>>

\* handles[h].Set(i, value) for i < size()
Set ==
    /\ ~arr.crashed
    /\ \E h \in 1..MaxHandles, value \in Items :
          \E i \in 0..(Array_size(arr, h) - 1) :
             /\ arr' = Array_Set(arr, h, i, value)
             /\ call' = [op |-> "Set", h |-> h, item |-> value,
                         before |-> Array_elements(arr, h),
                         shared |-> use_count(arr, arr.handles[h]) > 1]
    /\ UNCHANGED <<heap, cse, mut, irf, names>>

NextArray == Assign \/ Copy \/ PushBack \/ Set

SpecArray == InitArray /\ [][NextArray]_vars

\* C19: a push_back or a Set through one handle never changes the size or
\* the elements observed through another handle, also when the two handles
\* share one node.
C19_CopyOnWrite ==
    [][(call'.op = "push_back" \/ call'.op = "Set")
         => \A g \in 1..MaxHandles :
               g # call'.h => Array_elements(arr', g) = Array_elements(arr, g)]_vars

\* a push_back was made through a handle that shared a node of one
\* element or more with the other handle: the handle shows the new element
\* and the other handle the elements of before
C19_Witness ==
    /\ call.op = "push_back"
    /\ call.shared
    /\ Len(call.before) > 0
    /\ Array_elements(arr, call.h) = Append(call.before, call.item)
    /\ \E g \in 1..MaxHandles : g # call.h /\ Array_elements(arr, g) = call.before

\* C20: for every Array, a default-constructed one included, push_back
\* appends: the program goes on, the size is one larger, the last element
\* is the item and the elements of before are unchanged.
C20_PushBackAppends ==
    call.op = "push_back"
    => /\ ~arr.crashed
       /\ Array_size(arr, call.h) = Len(call.before) + 1
       /\ Array_elements(arr, call.h) = Append(call.before, call.item)

(***************************************************************************)
(* Shuffle. A vector operand is given by its element type and its lanes,   *)
(* an index by the value of its IntImm. The index list of a factory is an  *)
(* Array that starts default constructed.                                  *)
(***************************************************************************)
InternalError == [error |-> TRUE, user |-> FALSE, ret |-> <<>>]

\* Array<Expr> indices;
DefaultArray == [handles |-> <<nullptr>>, nodes |-> <<<<>>, <<>>>>, crashed |-> FALSE]

RECURSIVE InputLanes(_, _)
InputLanes(vectors, i) ==
    IF i > Len(vectors) THEN 0 ELSE vectors[i].lanes + InputLanes(vectors, i + 1)

\* Shuffle::make(vectors, indices)
Shuffle_make(vectors, indices) ==
    IF Len(vectors) = 0 \/ Len(indices) = 0 THEN InternalError
    ELSE IF \E i \in 1..Len(vectors) : vectors[i].elem # vectors[1].elem
    THEN InternalError
    ELSE IF \E i \in 1..Len(indices) :
               ~(0 <= indices[i] /\ indices[i] < InputLanes(vectors, 1))
    THEN InternalError
    ELSE Returns([kind |-> "Shuffle",
                  type |-> [elem |-> vectors[1].elem, lanes |-> Len(indices)],
                  vectors |-> vectors,
                  indices |-> indices])

\* the two loops of make_interleave from the k-th push_back on: i is the
\* lane and j the vector. An access through the null pointer ends them
RECURSIVE InterleaveIndices(_, _, _, _)
InterleaveIndices(a, n, lanes, k) ==
    IF a.crashed \/ k >= lanes * n THEN a
    ELSE InterleaveIndices(
             Array_push_back(a, 1, (k % n) * lanes + (k \div n)), n, lanes, k + 1)

\* the rest of make_interleave, with the index list as it was built
Shuffle_make_interleave_With(vectors, a) ==
    IF a.crashed THEN [error |-> FALSE, user |-> FALSE, ret |-> <<>>, crashed |-> TRUE]
    ELSE [error |-> Shuffle_make(vectors, Array_elements(a, 1)).error,
          user |-> FALSE,
          ret |-> Shuffle_make(vectors, Array_elements(a, 1)).ret,
          crashed |-> FALSE]

\* Shuffle::make_interleave(vectors), its index list starting from indices
Shuffle_make_interleave_From(vectors, indices) ==
    IF Len(vectors) = 0
    THEN [error |-> TRUE, user |-> FALSE, ret |-> <<>>, crashed |-> FALSE]
    ELSE IF Len(vectors) = 1
    THEN [error |-> FALSE, user |-> FALSE, ret |-> vectors[1], crashed |-> FALSE]
    ELSE IF \E i \in 1..Len(vectors) : vectors[i].lanes # vectors[1].lanes
    THEN [error |-> TRUE, user |-> FALSE, ret |-> <<>>, crashed |-> FALSE]
    ELSE Shuffle_make_interleave_With(
             vectors,
             InterleaveIndices(indices, Len(vectors), vectors[1].lanes, 0))

Shuffle_make_interleave(vectors) ==
    Shuffle_make_interleave_From(vectors, DefaultArray)

\* Shuffle::is_interleave() of the node s
Shuffle_is_interleave(s) ==
    IF s.vectors[1].lanes = 1 THEN FALSE
    ELSE IF \E i \in 1..Len(s.vectors) : s.vectors[i].lanes # s.vectors[1].lanes
    THEN FALSE
    ELSE IF s.vectors[1].lanes * Len(s.vectors) # Len(s.indices) THEN FALSE
    ELSE \A i \in 0..(Len(s.vectors) - 1), j \in 0..(s.vectors[1].lanes - 1) :
            s.indices[j * Len(s.vectors) + i + 1] = i * s.vectors[1].lanes + j

(***************************************************************************)
(* Specification of the interleave factory: make_interleave is called on   *)
(* every list of up to MaxVectors operands of one or more lanes.           *)
(***************************************************************************)
MaxVectors == 3
MaxLanes == 3

VectorOperands == [elem : {"int32", "float32"}, lanes : 1..MaxLanes]

InitShuffle ==
    /\ heap = <<>>
    /\ cse = IdleCSE
    /\ mut = IdleMut
    /\ call = NoCall
    /\ irf = IdleIrf
    /\ names = IdleNames
    /\ arr = IdleArr

MakeInterleave ==
    /\ \E n \in 0..MaxVectors :
          \E vectors \in [1..n -> VectorOperands] :
             call' = [op |-> "make_interleave", vectors |-> vectors,
                      out |-> Shuffle_make_interleave(vectors)]
    /\ UNCHANGED <<heap, cse, mut, irf, names, arr>>

NextShuffle == MakeInterleave

SpecShuffle == InitShuffle /\ [][NextShuffle]_vars

\* the operands of the call are two or more and have one lane count L >= 2
\* (and, as Shuffle::make requires, one element type)
InterleaveCase ==
    /\ call.op = "make_interleave"
    /\ Len(call.vectors) >= 2
    /\ call.vectors[1].lanes >= 2
    /\ \A i \in 1..Len(call.vectors) :
          /\ call.vectors[i].lanes = call.vectors[1].lanes
          /\ call.vectors[i].elem = call.vectors[1].elem

\* C21: for two or more vectors of one lane count L >= 2, make_interleave
\* returns a shuffle of them whose index list is the complete transpose
\* (output lane i*n + j reads lane i of vector j) and on which
\* is_interleave() holds; a single vector is returned unchanged.
C21_InterleaveIsTranspose ==
    /\ InterleaveCase =>
          /\ ~call.out.crashed /\ ~call.out.error
          /\ call.out.ret.kind = "Shuffle"
          /\ call.out.ret.vectors = call.vectors
          /\ Len(call.out.ret.indices) = Len(call.vectors) * call.vectors[1].lanes
          /\ \A i \in 0..(call.vectors[1].lanes - 1), j \in 0..(Len(call.vectors) - 1) :
                call.out.ret.indices[i * Len(call.vectors) + j + 1]
                   = j * call.vectors[1].lanes + i
          /\ Shuffle_is_interleave(call.out.ret)
    /\ (call.op = "make_interleave" /\ Len(call.vectors) = 1) =>
          /\ ~call.out.crashed /\ ~call.out.error
          /\ call.out.ret = call.vectors[1]

(***************************************************************************)
(* The make calls of the binary nodes with their internal_asserts. A call  *)
(* returns the heap after it, the handle and whether it raised an internal *)
(* error.                                                                  *)
(***************************************************************************)
\* the three internal_asserts of BinaryOpNode<T>::make and CmpOpNode<T>::make
MakeAsserts(h, a, b) == a # Undefined /\ b # Undefined /\ h[a].ty = h[b].ty

Made(r) == [error |-> FALSE, heap |-> r.heap, ret |-> r.ret]

Failed(h) == [error |-> TRUE, heap |-> h, ret |-> Undefined]

\* make that asserts only that the operands are defined
BinaryOpNode_make_Untyped(h, k, a, b) ==
    IF a = Undefined \/ b = Undefined THEN Failed(h)
    ELSE IF k \in CmpOpKinds THEN Made(AllocRet(h, CmpOp_make(h, k, a, b)))
    ELSE Made(AllocRet(h, BinaryOp_make(h, k, a, b)))

\* T::make(a, b) for T an arithmetic or a comparison node
BinaryOpNode_make(h, k, a, b) ==
    IF ~MakeAsserts(h, a, b) THEN Failed(h)
    ELSE IF k \in CmpOpKinds THEN Made(AllocRet(h, CmpOp_make(h, k, a, b)))
    ELSE Made(AllocRet(h, BinaryOp_make(h, k, a, b)))

(***************************************************************************)
(* Specification of the typed nodes: starting from x : int32, y : float32, *)
(* z : int32x4, x + x and z < z, calls are made while the heap holds no    *)
(* more than MaxMade further nodes: a make of an arithmetic or comparison  *)
(* node on any two handles (the undefined handle included) if the node     *)
(* fits, a mutate of a mutator that renames one variable and rebuilds by   *)
(* the default visits, or common_subexpression_elimination.                *)
(***************************************************************************)
MaxMade == 1

TypedLeaves == <<Variable_make(Type_t("int", 32, 1), "x"),
                 Variable_make(Type_t("float", 32, 1), "y"),
                 Variable_make(Type_t("int", 32, 4), "z")>>

TypedHeap ==
    Alloc(Alloc(TypedLeaves, BinaryOp_make(TypedLeaves, "Add", 1, 1)),
          CmpOp_make(TypedLeaves, "LT", 3, 3))

TypedKinds == {"Add", "Min", "LT"}

InitTypes ==
    /\ heap = TypedHeap
    /\ cse = IdleCSE
    /\ mut = IdleMut
    /\ call = NoCall
    /\ irf = IdleIrf
    /\ names = IdleNames
    /\ arr = IdleArr

\* T::make(a, b)
MakeTyped ==
    /\ Len(heap) < Len(TypedHeap) + MaxMade
    /\ \E k \in TypedKinds, a \in 0..Len(heap), b \in 0..Len(heap) :
          /\ heap' = BinaryOpNode_make(heap, k, a, b).heap
          /\ call' = [op |-> "make", k |-> k, a |-> a, b |-> b, len |-> Len(heap),
                      error |-> BinaryOpNode_make(heap, k, a, b).error,
                      ret |-> BinaryOpNode_make(heap, k, a, b).ret]
    /\ UNCHANGED <<cse, mut, irf, names, arr>>

\* mutate(root) of the subclass of IRMutator that renames the variable var
MutateTyped ==
    /\ Len(heap) <= Len(TypedHeap) + MaxMade
    /\ \E root \in 1..Len(heap), var \in 1..Len(TypedLeaves) :
          /\ heap' = Mutate([NewMutator("IRMutator", heap) EXCEPT !.fresh = {var}],
                            root, FALSE).heap
          /\ call' = [op |-> "mutate", root |-> root, var |-> var, len |-> Len(heap)]
    /\ UNCHANGED <<cse, mut, irf, names, arr>>

\* common_subexpression_elimination(root)
CSETyped ==
    /\ Len(heap) <= Len(TypedHeap) + MaxMade
    /\ \E root \in 1..Len(heap) :
          /\ heap' = common_subexpression_elimination(heap, root).heap
          /\ call' = [op |-> "cse", root |-> root, len |-> Len(heap)]
    /\ UNCHANGED <<cse, mut, irf, names, arr>>

NextTypes == MakeTyped \/ MutateTyped \/ CSETyped

SpecTypes == InitTypes /\ [][NextTypes]_vars

\* C22: every arithmetic node and every comparison node has operands of
\* equal type, the arithmetic node has that type and the comparison node
\* the type Bool with the operands' lanes; a make with undefined operands
\* or operands of different types raises an internal error and makes no
\* node, every other make returns a new node.
C22_OperandsOfEqualType ==
    /\ \A n \in 1..Len(heap) :
          /\ heap[n].k \in BinaryOpKinds \cup CmpOpKinds
                => heap[heap[n].c[1]].ty = heap[heap[n].c[2]].ty
          /\ heap[n].k \in BinaryOpKinds => heap[n].ty = heap[heap[n].c[1]].ty
          /\ heap[n].k \in CmpOpKinds
                => heap[n].ty = Type_t("uint", 1, heap[heap[n].c[1]].ty.lanes)
    /\ call.op = "make" =>
          IF call.a = 0 \/ call.b = 0 \/ heap[call.a].ty # heap[call.b].ty
          THEN call.error /\ Len(heap) = call.len
          ELSE ~call.error /\ Len(heap) = call.len + 1 /\ call.ret = Len(heap)

\* a make call made an arithmetic or comparison node, and the last call, a
\* mutate or a common_subexpression_elimination, made another node of its
\* kind with other operands
C22_Witness ==
    /\ call.op \in {"mutate", "cse"}
    /\ \E m \in (Len(TypedHeap) + 1)..call.len, n \in (call.len + 1)..Len(heap) :
          /\ heap[m].k \in BinaryOpKinds \cup CmpOpKinds
          /\ heap[n].k = heap[m].k
          /\ heap[n].c # heap[m].c

(***************************************************************************)
(* The resolution of let-bound variables by GVN, on SpecCSE. The result of *)
(* gvn.mutate (canon) has no Let: GVN returns the body of a Let, with the  *)
(* references it resolved replaced by the expression of their number.      *)
(***************************************************************************)
\* C23: during GVN every reference to a variable v inside the body of a Let
\* binding v is resolved to the value of the innermost enclosing Let that
\* binds v (also when v was seen before free or bound to another value, or
\* when the referencing node is shared): the canonical form GVN returns is
\* the input with every such reference replaced by that value.
C23_InnermostLet ==
    cse.pc = "done" =>
        Inlined(cse.heap, cse.canon, EmptyMap) = Inlined(cse.heap, cse.in, EmptyMap)

(***************************************************************************)
(* Specification of should_extract: starting from x and 1, up to MaxArith  *)
(* arithmetic nodes of the seven kinds are made bottom-up, then            *)
(* common_subexpression_elimination runs on the last one.                  *)
(***************************************************************************)
MaxArith == 2

ExtractLeaves == <<Variable_make("Int32", "x"), IntImmNode(1)>>

InitExtract ==
    /\ heap = ExtractLeaves
    /\ cse = IdleCSE
    /\ mut = IdleMut
    /\ call = NoCall
    /\ irf = IdleIrf
    /\ names = IdleNames
    /\ arr = IdleArr

\* T::make(a, b) for the seven arithmetic kinds
MakeArith ==
    /\ cse.pc = "idle"
    /\ Len(heap) < Len(ExtractLeaves) + MaxArith
    /\ \E k \in BinaryOpKinds, a \in 1..Len(heap), b \in 1..Len(heap) :
          heap' = BinaryOpNode_make(heap, k, a, b).heap
    /\ UNCHANGED <<cse, mut, call, irf, names, arr>>

\* common_subexpression_elimination on the last expression made
ExtractCSE ==
    /\ cse.pc = "idle"
    /\ LET r == common_subexpression_elimination(heap, Len(heap))
       IN cse' = [IdleCSE EXCEPT !.pc = "done", !.in = Len(heap), !.heap = r.heap,
                                 !.out = r.out, !.canon = r.canon,
                                 !.entries = r.entries, !.lets = r.lets]
    /\ UNCHANGED <<heap, mut, call, irf, names, arr>>

NextExtract == MakeArith \/ ExtractCSE

SpecExtract == InitExtract /\ [][NextExtract]_vars

\* an arithmetic node with a constant operand
HasConstOperand(h, e) ==
    /\ h[e].k \in BinaryOpKinds
    /\ is_const(h, h[e].c[1]) \/ is_const(h, h[e].c[2])

\* C24: should_extract returns false for every arithmetic node (Add, Sub,
\* Mul, Div, Mod, Min, Max) that has a constant operand; such a node is
\* never counted as a use and never bound by an introduced Let.
C24_ConstOperandNotExtracted ==
    /\ \A e \in 1..Len(heap) : HasConstOperand(heap, e) => ~should_extract(heap, e)
    /\ cse.pc = "done" =>
          /\ \A i \in 1..Len(cse.entries) :
                HasConstOperand(cse.heap, cse.entries[i].expr)
                   => cse.entries[i].use_count = 0
          /\ \A i \in 1..Len(cse.lets) : ~HasConstOperand(cse.heap, cse.lets[i][2])

(***************************************************************************)
(* The shape of the result of common_subexpression_elimination, on SpecCSE *)
(***************************************************************************)
\* the Let nodes from e down the bodies, outermost first, and the
\* expression under the innermost of them
RECURSIVE LetChain(_, _)
LetChain(h, e) ==
    IF h[e].k = "Let" THEN <<e>> \o LetChain(h, h[e].c[2]) ELSE <<>>

RECURSIVE ChainBody(_, _)
ChainBody(h, e) == IF h[e].k = "Let" THEN ChainBody(h, h[e].c[2]) ELSE e

LetFree(h, e) == \A x \in Subterms(h, e) : h[x].k # "Let"

\* the entries of the GVN used more than once, in numbering order
RECURSIVE UsedTwice(_, _)
UsedTwice(entries, i) ==
    IF i > Len(entries) THEN <<>>
    ELSE (IF entries[i].use_count > 1 THEN <<i>> ELSE <<>>) \o UsedTwice(entries, i + 1)

\* the tree of e with the variables of the Lets of chain replaced by the
\* trees of their values
RECURSIVE ChainEnv(_, _, _, _)
ChainEnv(h, chain, i, env) ==
    IF i > Len(chain) THEN env
    ELSE ChainEnv(h, chain, i + 1,
                  Put(env, h[chain[i]].var, Inlined(h, h[chain[i]].c[1], env)))

\* C25: the result of common_subexpression_elimination is a chain of
\* exactly as many Lets as there are GVN entries with a use count above 1,
\* one per such entry (the Let binds the expression of the entry), around
\* a Let-free body with Let-free values; entries used at most once and the
\* Lets of the input give no Let.
C25_OneLetPerSharedEntry ==
    cse.pc = "done" =>
        /\ Len(LetChain(cse.heap, cse.out)) = Len(UsedTwice(cse.entries, 1))
        /\ LetFree(cse.heap, ChainBody(cse.heap, cse.out))
        /\ \A i \in 1..Len(LetChain(cse.heap, cse.out)) :
              /\ LetFree(cse.heap, cse.heap[LetChain(cse.heap, cse.out)[i]].c[1])
              /\ Inlined(cse.heap, cse.heap[LetChain(cse.heap, cse.out)[i]].c[1],
                         ChainEnv(cse.heap, LetChain(cse.heap, cse.out), 1, EmptyMap))
                   = Inlined(cse.heap,
                             cse.entries[UsedTwice(cse.entries, 1)[i]].expr, EmptyMap)
        /\ \A i, j \in 1..Len(LetChain(cse.heap, cse.out)) :
              i # j => cse.heap[LetChain(cse.heap, cse.out)[i]].var
                          # cse.heap[LetChain(cse.heap, cse.out)[j]].var

\* the input holds a Let, the GVN has an entry used once and one entry
\* used more than once, and the result is a chain of one Let
C25_Witness ==
    /\ cse.pc = "done"
    /\ ~LetFree(cse.heap, cse.in)
    /\ \E i \in 1..Len(cse.entries) : cse.entries[i].use_count = 1
    /\ Len(UsedTwice(cse.entries, 1)) = 1
    /\ Len(LetChain(cse.heap, cse.out)) = 1

\* the variables that occur in e
VarsIn(h, e) == {x \in Subterms(h, e) : h[x].k = "Variable"}

\* the variables common_subexpression_elimination introduced
Introduced == {cse.lets[i][1] : i \in 1..Len(cse.lets)}

\* C26: in the result the Lets are nested in numbering order, the one of the
\* lowest-numbered entry outermost, and the value of each introduced Let
\* refers only to variables of the Lets around it, never to its own, so an
\* introduced variable occurs only in the body of its Let.
C26_NestedInNumberingOrder ==
    cse.pc = "done" =>
        /\ Len(LetChain(cse.heap, cse.out)) = Len(cse.lets)
        /\ \A i \in 1..Len(cse.lets) :
              /\ cse.heap[LetChain(cse.heap, cse.out)[i]].var = cse.lets[i][1]
              /\ cse.lets[i][2] = cse.entries[UsedTwice(cse.entries, 1)[i]].expr
              /\ VarsIn(cse.heap, cse.heap[LetChain(cse.heap, cse.out)[i]].c[1])
                    \cap Introduced
                 \subseteq {cse.lets[j][1] : j \in 1..(i - 1)}

\* the result is a chain of two Lets and the value of the inner one refers
\* to the variable of the outer one
C26_Witness ==
    /\ cse.pc = "done"
    /\ Len(LetChain(cse.heap, cse.out)) = 2
    /\ cse.lets[1][1] \in VarsIn(cse.heap, cse.heap[LetChain(cse.heap, cse.out)[2]].c[1])

(***************************************************************************)
(* add_would_overflow, sub_would_overflow and mul_would_overflow on int64  *)
(* words. A call returns its result and whether it evaluated a signed      *)
(* operation that overflows 64 bits (undefined behaviour).                 *)
(***************************************************************************)
WordZero(w) == [i \in 1..w |-> 0]
WordOne(w) == [i \in 1..w |-> IF i = 1 THEN 1 ELSE 0]

\* a + b, a - b and -a modulo 2^(8 * Len(a))
WordAdd(a, b) == AddFrom(a, b, 1, 0)
WordSub(a, b) == AddFrom(a, Complement(b), 1, 1)
WordNeg(a) == AddFrom(WordZero(Len(a)), Complement(a), 1, 1)

\* the signed a + b and a - b do not fit the width of the words
AddWraps(a, b) ==
    IsNegative(a) = IsNegative(b) /\ IsNegative(WordAdd(a, b)) # IsNegative(a)
SubWraps(a, b) ==
    IsNegative(a) # IsNegative(b) /\ IsNegative(WordSub(a, b)) # IsNegative(a)

Less(a, b) == Greater(b, a)

\* int64_t max_val = 0x7fffffffffffffffLL >> (64 - bits)
max_val(bits) ==
    ShiftRightSigned([i \in 1..8 |-> IF i = 8 THEN 127 ELSE 255], Int64Bits - bits)

\* int64_t min_val = -max_val - 1
min_val(bits) == WordSub(WordNeg(max_val(bits)), WordOne(8))

Positive(b) == Greater(b, WordZero(Len(b)))

add_would_overflow(bits, a, b) ==
    [ret |-> \/ Positive(b) /\ Greater(a, WordSub(max_val(bits), b))
             \/ IsNegative(b) /\ Less(a, WordSub(min_val(bits), b)),
     ub |-> \/ Positive(b) /\ SubWraps(max_val(bits), b)
            \/ IsNegative(b) /\ ~(Positive(b) /\ Greater(a, WordSub(max_val(bits), b)))
                  /\ SubWraps(min_val(bits), b)]

sub_would_overflow(bits, a, b) ==
    [ret |-> \/ IsNegative(b) /\ Greater(a, WordAdd(max_val(bits), b))
             \/ Positive(b) /\ Less(a, WordAdd(min_val(bits), b)),
     ub |-> \/ IsNegative(b) /\ AddWraps(max_val(bits), b)
            \/ Positive(b) /\ AddWraps(min_val(bits), b)]

\* the magnitude of a word, in its own width
WordAbs(a) == IF IsNegative(a) THEN WordNeg(a) ELSE a

\* n / d = q for int64 words, d neither 0 nor -1: the remainder n - q * d,
\* exact in 128 bits, is smaller in magnitude than d and is 0 or has the
\* sign of n (the quotient is truncated towards zero)
RemainderOf(n, d, q) ==
    WordSub(Convert(n, 16), Multiply(Convert(q, 16), Convert(d, 16)))

QuotientIs(n, d, q) ==
    /\ Less(WordAbs(RemainderOf(n, d, q)), WordAbs(Convert(d, 16)))
    /\ \/ RemainderOf(n, d, q) = WordZero(16)
       \/ IsNegative(RemainderOf(n, d, q)) = IsNegative(n)

\* mul_would_overflow without the clause (ab / a != b)
mul_would_overflow_NoDivision(bits, a, b) ==
    [ret |-> IF a = WordZero(8) THEN FALSE
             ELSE IF a = Complement(WordZero(8)) THEN b = min_val(bits)
             ELSE \/ Less(Multiply(a, b), min_val(bits))
                  \/ Greater(Multiply(a, b), max_val(bits)),
     ub |-> FALSE]

\* ab is the product as uint64, modulo 2^64, cast back to int64
mul_would_overflow(bits, a, b) ==
    [ret |-> IF a = WordZero(8) THEN FALSE
             ELSE IF a = Complement(WordZero(8)) THEN b = min_val(bits)
             ELSE \/ Less(Multiply(a, b), min_val(bits))
                  \/ Greater(Multiply(a, b), max_val(bits))
                  \/ ~QuotientIs(Multiply(a, b), a, b),
     ub |-> FALSE]

(***************************************************************************)
(* Specification of the overflow tests: the three functions are called for *)
(* the widths of OverflowBits on values a and b that a signed integer of   *)
(* the width represents: small ones, the minimum and the maximum and their *)
(* neighbours, and powers of two around the square root of the range.      *)
(***************************************************************************)
OverflowBits == {1, 2, 3, 8, 31, 32, 33, 62, 63, 64}

\* 2^k as an int64 word
PowerOfTwo(k) == ShiftLeft(WordOne(8), k)

\* the w-bit signed range, by 2^(w-1) in 128 bits
InRange(v, bits) ==
    /\ ~Greater(v, WordSub(ShiftLeft(WordOne(16), bits - 1), WordOne(16)))
    /\ ~Less(v, WordNeg(ShiftLeft(WordOne(16), bits - 1)))

OverflowValues(bits) ==
    {v \in {IntWord(n, 8) : n \in -3..3}
           \cup {max_val(bits), WordSub(max_val(bits), WordOne(8)),
                 min_val(bits), WordAdd(min_val(bits), WordOne(8))}
           \cup UNION {{PowerOfTwo(k), WordNeg(PowerOfTwo(k)),
                        WordAdd(PowerOfTwo(k), WordOne(8))} :
                       k \in {bits \div 2, (bits - 1) \div 2, (bits - 1) - (bits \div 2)}} :
        InRange(Convert(v, 16), bits)}

InitOverflow ==
    /\ heap = <<>>
    /\ cse = IdleCSE
    /\ mut = IdleMut
    /\ call = NoCall
    /\ irf = IdleIrf
    /\ names = IdleNames
    /\ arr = IdleArr

\* one call of each of the three functions
WouldOverflow ==
    /\ call = NoCall
    /\ \E bits \in OverflowBits :
          \E a \in OverflowValues(bits), b \in OverflowValues(bits) :
             call' = [op |-> "would_overflow", bits |-> bits, a |-> a, b |-> b,
                      add |-> add_would_overflow(bits, a, b),
                      sub |-> sub_would_overflow(bits, a, b),
                      mul |-> mul_would_overflow(bits, a, b)]
    /\ UNCHANGED <<heap, cse, mut, irf, names, arr>>

NextOverflow == WouldOverflow

SpecOverflow == InitOverflow /\ [][NextOverflow]_vars

\* the 128-bit word r lies outside the signed range of the width
OutOfRange(r, bits) == ~InRange(r, bits)

\* C27: for every width w in 1..64 and all a, b representable in w bits,
\* add_would_overflow, sub_would_overflow and mul_would_overflow return
\* true exactly when a + b, a - b, a * b lies outside [-2^(w-1), 2^(w-1) - 1]
\* (and evaluate no operation that overflows 64 bits).
C27_WouldOverflowExact ==
    call.op = "would_overflow" =>
        /\ ~call.add.ub /\ ~call.sub.ub /\ ~call.mul.ub
        /\ call.add.ret <=>
              OutOfRange(WordAdd(Convert(call.a, 16), Convert(call.b, 16)), call.bits)
        /\ call.sub.ret <=>
              OutOfRange(WordSub(Convert(call.a, 16), Convert(call.b, 16)), call.bits)
        /\ call.mul.ret <=>
              OutOfRange(Multiply(Convert(call.a, 16), Convert(call.b, 16)), call.bits)

\* a 64-bit call whose product does not fit 64 bits, though the product
\* modulo 2^64 lies in the range: only the division finds the overflow
C27_Witness ==
    /\ call.op = "would_overflow"
    /\ call.bits = 64
    /\ call.mul.ret
    /\ ~Less(Multiply(call.a, call.b), min_val(64))
    /\ ~Greater(Multiply(call.a, call.b), max_val(64))
    /\ call.add.ret /\ ~call.sub.ret


(***************************************************************************)
(* set_dispatch on a kind that has a callback, on the table of             *)
(* SpecFunctor. A call is a step whose call record is that of set_dispatch *)
(* (directly or through the wrapper); irf is the table before the call,    *)
(* irf' the table after it.                                                *)
(***************************************************************************)
SetDispatchOps == {"set_dispatch", "IRFunctorWrapper::set_dispatch"}

\* C28: set_dispatch for a kind that has a callback (set and not cleared
\* since) fails with an internal error and leaves the table as it was, the
\* callback of that kind and of every other kind included; set_dispatch
\* that follows clear_dispatch of the same kind succeeds and stores the new
\* callback.
C28_SetTwiceFails ==
    [][/\ (/\ call'.op \in SetDispatchOps
           /\ irf.registered[TypeKey2Index(call'.key) + 1] # NoFunction)
          => /\ call'.error
             /\ irf'.func_ = irf.func_
             /\ irf'.registered = irf.registered
       /\ (/\ call.op = "clear_dispatch"
           /\ call'.op \in SetDispatchOps
           /\ call'.key = call.key)
          => /\ ~call'.error
             /\ irf'.func_[TypeKey2Index(call'.key) + 1] = irf.next
             /\ \A j \in 1..Len(irf.func_) :
                   j # TypeKey2Index(call'.key) + 1
                   => irf'.func_[j] = irf.func_[j]]_vars

\* set_dispatch has failed for a kind that holds a callback, while another
\* kind holds a callback too
C28_Witness ==
    /\ call.op \in SetDispatchOps
    /\ call.error
    /\ irf.func_[TypeKey2Index(call.key) + 1] # NoFunction
    /\ \E j \in 1..Len(irf.func_) :
          j # TypeKey2Index(call.key) + 1 /\ irf.func_[j] # NoFunction


\* C29: the teardown of the wrapper (the destructor of its last copy) leaves
\* every table entry that holds a callback registered by another party
\* unchanged, also for a kind the wrapper once registered and that was
\* cleared and registered again since.
C29_TeardownKeepsOthers ==
    [][call'.op = "~IRFunctorWrapper"
       => \A j \in 1..Len(irf.func_) :
             (irf.func_[j] # NoFunction /\ irf.func_[j] \notin irf.owned)
             => irf'.func_[j] = irf.func_[j]]_vars


(***************************************************************************)
(* The execution order of a statement: the statements that are not Blocks, *)
(* from left to right (first before rest). Statements are told apart by    *)
(* their handles.                                                          *)
(***************************************************************************)
RECURSIVE Sequence(_, _)
Sequence(h, s) ==
    IF h[s].k = "Block"
    THEN Sequence(h, h[s].c[1]) \o Sequence(h, h[s].c[2])
    ELSE <<s>>

\* the sequences of the statements stmts[i..], one after the other
RECURSIVE SequenceOfList(_, _, _)
SequenceOfList(h, stmts, i) ==
    IF i > Len(stmts) THEN <<>>
    ELSE Sequence(h, stmts[i]) \o SequenceOfList(h, stmts, i + 1)

\* C30: the sequence of non-Block statements of Block::make(first, rest) is
\* that of first followed by that of rest, and the sequence of
\* Block::make(list) for a list that is not empty is the sequences of the
\* statements of the list in list order; no statement is dropped or
\* duplicated.
C30_OrderPreserved ==
    (call.op = "Block::make" /\ call.args # <<>>)
    => Sequence(heap, call.ret) = SequenceOfList(heap, call.args, 1)

\* Block::make was called on a list of three statements, the first of them
\* a Block, and returned a Block of more than three statements
C30_Witness ==
    /\ call.op = "Block::make"
    /\ Len(call.args) = 3
    /\ heap[call.args[1]].k = "Block"
    /\ call.args[2] # call.args[3]
    /\ Len(Sequence(heap, call.ret)) > 3

====
